---- MODULE Spec2Model ----
(***************************************************************************)
(* A model of the automaton subsystem of gocleo (package fst): the three   *)
(* builders (SimpleFSABuilder, FSTBuilder, MinimizingBuilder), the         *)
(* array-backed automata they produce (SimpleFSA, FST, MinimizedFST), the  *)
(* iterators over them, the Levenshtein automaton used by FuzzySearch, the *)
(* set operations over automata and the BoundedLRUCache.                   *)
(*                                                                         *)
(* Byte strings are sequences over Alphabet; a Go []byte that may be nil   *)
(* is a record [isNil, b].  Indices in the comments are Go's (0-based);    *)
(* sequences here are 1-based, so keys[i] of the source is keys[i+1].      *)
(***************************************************************************)
EXTENDS Integers, Sequences, FiniteSets, TLC

VARIABLES builder, fsa, res, hist, iter, out, fz, so, lru, au, cq, al

vars == <<builder, fsa, res, hist, iter, out, fz, so, lru, au, cq, al>>

-----------------------------------------------------------------------------
(* Bounds of the model *)

\* longest key, prefix, range bound or pattern
MaxLen == 2
\* most keys one builder accumulates
MaxKeys == 2
\* largest maxDistance passed to FuzzySearch
MaxDist == 1
\* most Reset() calls on one iterator
MaxResets == 1

\* the bytes keys are made of ('a' < 'b')
Alphabet == {1, 2}
\* the uint64 outputs attached to keys
Values == {0, 1}

StrsOfLen(n) == [1..n -> Alphabet]
Strs(n) == UNION {StrsOfLen(m) : m \in 0..n}
AllStrs == Strs(MaxLen)

-----------------------------------------------------------------------------
(* Go library functions the code relies on *)

MinOfSet(S) == CHOOSE x \in S : \A y \in S : x <= y

\* bytes.Compare / string comparison: -1, 0, +1 in byte-lexicographic order
bytes_Compare(a, b) ==
    LET n == IF Len(a) < Len(b) THEN Len(a) ELSE Len(b)
        diffs == {i \in 1..n : a[i] # b[i]}
    IN  IF diffs = {}
        THEN IF Len(a) < Len(b) THEN -1 ELSE IF Len(a) > Len(b) THEN 1 ELSE 0
        ELSE IF a[MinOfSet(diffs)] < b[MinOfSet(diffs)] THEN -1 ELSE 1

\* bytes.HasPrefix
bytes_HasPrefix(s, p) == Len(s) >= Len(p) /\ SubSeq(s, 1, Len(p)) = p

\* a []byte that may be nil
NilSlice == [isNil |-> TRUE, b |-> <<>>]
Slice(s) == [isNil |-> FALSE, b |-> s]

\* sort.Slice / sort.Strings with the byte-lexicographic less: insertion sort
RECURSIVE InsertSorted(_, _)
InsertSorted(sorted, k) ==
    IF sorted = <<>> THEN <<k>>
    ELSE IF bytes_Compare(k, Head(sorted)) < 0 THEN <<k>> \o sorted
    ELSE <<Head(sorted)>> \o InsertSorted(Tail(sorted), k)

RECURSIVE sort_Strings(_)
sort_Strings(s) ==
    IF s = <<>> THEN <<>>
    ELSE InsertSorted(sort_Strings(SubSeq(s, 1, Len(s) - 1)), s[Len(s)])

\* sort.SearchStrings(a, x): the smallest index i in [0, len(a)] with a[i] >= x
RECURSIVE SearchLoop(_, _, _, _)
SearchLoop(a, x, i, j) ==
    IF i < j
    THEN LET h == (i + j) \div 2
         IN  IF bytes_Compare(a[h + 1], x) < 0
             THEN SearchLoop(a, x, h + 1, j)
             ELSE SearchLoop(a, x, i, h)
    ELSE i

sort_SearchStrings(a, x) == SearchLoop(a, x, 0, Len(a))

Range(s) == {s[i] : i \in 1..Len(s)}

-----------------------------------------------------------------------------
(* Builders *)

ErrNil == "nil"
ErrEmptyKey == "EmptyKey"
ErrDuplicateKey == "DuplicateKey"
ErrUnorderedKey == "UnorderedKey"

BuilderKinds == {"SimpleFSABuilder", "FSTBuilder", "MinimizingBuilder"}

\* NewFSABuilder
NewFSABuilder ==
    [kind |-> "SimpleFSABuilder", keys |-> <<>>, values |-> <<>>, lastKey |-> NilSlice]

\* NewFSTBuilder
NewFSTBuilder ==
    [kind |-> "FSTBuilder", keys |-> <<>>, values |-> <<>>, lastKey |-> NilSlice]

\* NewMinimizingBuilder
NewMinimizingBuilder ==
    [kind |-> "MinimizingBuilder", keys |-> <<>>, values |-> <<>>, lastKey |-> NilSlice]

\* SimpleFSABuilder.Add's check with < in place of <=: a repeated key passes
SimpleFSABuilder_AddErr_Strict(b, key) ==
    IF Len(key) = 0 THEN ErrEmptyKey
    ELSE IF ~b.lastKey.isNil /\ bytes_Compare(key, b.lastKey.b) < 0
         THEN IF key = b.lastKey.b THEN ErrDuplicateKey ELSE ErrUnorderedKey
         ELSE ErrNil

\* The error SimpleFSABuilder.Add returns for key
SimpleFSABuilder_AddErr(b, key) ==
    IF Len(key) = 0 THEN ErrEmptyKey
    ELSE IF ~b.lastKey.isNil /\ bytes_Compare(key, b.lastKey.b) <= 0
         THEN IF key = b.lastKey.b THEN ErrDuplicateKey ELSE ErrUnorderedKey
         ELSE ErrNil

\* SimpleFSABuilder.Add: <<builder after the call, error>>
SimpleFSABuilder_Add(b, key) ==
    LET err == SimpleFSABuilder_AddErr(b, key)
    IN  IF err # ErrNil THEN <<b, err>>
        ELSE <<[b EXCEPT !.keys = Append(@, key), !.lastKey = Slice(key)], ErrNil>>

\* The error FSTBuilder.Add returns for key (no check of len(key))
FSTBuilder_AddErr(b, key) ==
    IF \E i \in 1..Len(b.keys) : b.keys[i] = key THEN ErrDuplicateKey
    ELSE IF Len(b.keys) > 0 /\ bytes_Compare(key, b.keys[Len(b.keys)]) <= 0
         THEN ErrUnorderedKey
         ELSE ErrNil

\* FSTBuilder.Add
FSTBuilder_Add(b, key, value) ==
    LET err == FSTBuilder_AddErr(b, key)
    IN  IF err # ErrNil THEN <<b, err>>
        ELSE <<[b EXCEPT !.keys = Append(@, key), !.values = Append(@, value)], ErrNil>>

\* The error MinimizingBuilder.Add returns for key
MinimizingBuilder_AddErr(b, key) ==
    IF Len(key) = 0 THEN ErrEmptyKey
    ELSE IF \E i \in 1..Len(b.keys) : b.keys[i] = key THEN ErrDuplicateKey
    ELSE IF Len(b.keys) > 0 /\ bytes_Compare(key, b.keys[Len(b.keys)]) <= 0
         THEN ErrUnorderedKey
         ELSE ErrNil

\* MinimizingBuilder.Add appending before it validates the key
MinimizingBuilder_Add_AppendFirst(b, key, value) ==
    <<[b EXCEPT !.keys = Append(@, key), !.values = Append(@, value)],
      MinimizingBuilder_AddErr(b, key)>>

\* MinimizingBuilder.Add
MinimizingBuilder_Add(b, key, value) ==
    LET err == MinimizingBuilder_AddErr(b, key)
    IN  IF err # ErrNil THEN <<b, err>>
        ELSE <<[b EXCEPT !.keys = Append(@, key), !.values = Append(@, value)], ErrNil>>

\* Add of the builder at hand
Builder_Add(b, key, value) ==
    CASE b.kind = "SimpleFSABuilder" -> SimpleFSABuilder_Add(b, key)
      [] b.kind = "FSTBuilder" -> FSTBuilder_Add(b, key, value)
      [] b.kind = "MinimizingBuilder" -> MinimizingBuilder_Add(b, key, value)

\* NewSimpleFSA: a sorted copy of the keys
NewSimpleFSA(keys) ==
    [kind |-> "SimpleFSA", keys |-> sort_Strings(keys), values |-> <<>>]

\* SimpleFSABuilder.Build
SimpleFSABuilder_Build(b) == NewSimpleFSA(b.keys)

\* FSTBuilder.Build
FSTBuilder_Build(b) == [kind |-> "FST", keys |-> b.keys, values |-> b.values]

\* MinimizingBuilder.Build
MinimizingBuilder_Build(b) ==
    [kind |-> "MinimizedFST", keys |-> b.keys, values |-> b.values]

Builder_Build(b) ==
    CASE b.kind = "SimpleFSABuilder" -> SimpleFSABuilder_Build(b)
      [] b.kind = "FSTBuilder" -> FSTBuilder_Build(b)
      [] b.kind = "MinimizingBuilder" -> MinimizingBuilder_Build(b)

\* SimpleFSABuilder.Reset leaving lastKey as it is
SimpleFSABuilder_Reset_KeepsLastKey(b) == [b EXCEPT !.keys = <<>>]

\* SimpleFSABuilder.Reset
SimpleFSABuilder_Reset(b) == [b EXCEPT !.keys = <<>>, !.lastKey = NilSlice]

\* SimpleFSABuilder.Len
SimpleFSABuilder_Len(b) == Len(b.keys)

-----------------------------------------------------------------------------
(* Automata *)

\* no automaton built yet
NoFSA == [kind |-> "none", keys |-> <<>>, values |-> <<>>]

\* SimpleFSA.Contains: binary search over the sorted keys
RECURSIVE ContainsLoop(_, _, _, _)
ContainsLoop(keys, key, left, right) ==
    IF left < right
    THEN LET mid == (left + right) \div 2
             cmp == bytes_Compare(keys[mid + 1], key)
         IN  IF cmp < 0 THEN ContainsLoop(keys, key, mid + 1, right)
             ELSE IF cmp > 0 THEN ContainsLoop(keys, key, left, mid)
             ELSE TRUE
    ELSE FALSE

\* SimpleFSA.Contains with right starting at len(keys) - 1
SimpleFSA_Contains_ShortRight(f, key) == ContainsLoop(f.keys, key, 0, Len(f.keys) - 1)

SimpleFSA_Contains(f, key) == ContainsLoop(f.keys, key, 0, Len(f.keys))

\* SimpleFSA.Len
SimpleFSA_Len(f) == Len(f.keys)

\* FST.Get: <<value, found>>
FST_Get(f, key) ==
    LET i == sort_SearchStrings(f.keys, key)
    IN  IF i < Len(f.keys) /\ f.keys[i + 1] = key
        THEN <<f.values[i + 1], TRUE>>
        ELSE <<0, FALSE>>

\* FST.Contains
FST_Contains(f, key) == FST_Get(f, key)[2]

\* MinimizedFST.Get comparing the start of each stored key only
MinimizedFST_Get_PrefixMatch(f, key) ==
    LET hits == {i \in 1..Len(f.keys) : bytes_HasPrefix(f.keys[i], key)}
    IN  IF hits # {} THEN <<f.values[MinOfSet(hits)], TRUE>> ELSE <<0, FALSE>>

\* MinimizedFST.Get: linear scan, first hit
MinimizedFST_Get(f, key) ==
    LET hits == {i \in 1..Len(f.keys) : f.keys[i] = key}
    IN  IF hits # {} THEN <<f.values[MinOfSet(hits)], TRUE>> ELSE <<0, FALSE>>

\* MinimizedFST.NumStates
MinimizedFST_NumStates(f) == Len(f.keys)

-----------------------------------------------------------------------------
(* The builder protocol: one builder, Add / Build / Reset in any order.    *)
(* res is what the most recent call returned (the error of Add, the        *)
(* automaton of Build); hist records the calls: the keys and the values    *)
(* Add accepted since the builder was made or Reset, and whether Build was *)
(* called.                                                                 *)

NoRes == [op |-> "none", key |-> <<>>, err |-> ErrNil, fsa |-> NoFSA]
NoHist == [accepted |-> <<>>, values |-> <<>>, frozen |-> FALSE]
NoIter ==
    [impl |-> "none", pos |-> 0, prefix |-> NilSlice, start |-> NilSlice,
     end |-> NilSlice, startIdx |-> 0, endIdx |-> 0]
NoOut ==
    [call |-> "none", p |-> NilSlice, a |-> NilSlice, b |-> NilSlice,
     keys |-> <<>>, done |-> FALSE, resets |-> 0,
     last |-> "none", ok |-> FALSE, target |-> NilSlice]
\* no fuzzy search called: the arguments, whether the call returned, what
\* it returned, and whether it ended in a run-time panic instead
NoFz ==
    [pattern |-> <<>>, maxDistance |-> 0, done |-> FALSE, results |-> <<>>,
     panic |-> FALSE]
\* no set operation called: the operation, its operands, the automaton it
\* returned, the operand (0: none) that the returned pointer is, the error
NoSo ==
    [operation |-> "none", fsas |-> <<>>, result |-> NoFSA, same |-> 0,
     err |-> ErrNil]
\* no cache made: the capacity, the map (hash to cacheEntry of the element
\* it points to) and the list (cacheEntries, front first)
NoLru == [capacity |-> 0, cache |-> <<>>, lru |-> <<>>]
\* no Automaton built: the keys given to BuildFromStrings, the automaton at
\* hand, the automaton MinimizeAutomaton was last given, what was called
NoAu ==
    [keys |-> <<>>, automaton |-> [States |-> <<>>, StartState |-> 0, NumStates |-> 0],
     before |-> [States |-> <<>>, StartState |-> 0, NumStates |-> 0],
     op |-> "none", minimized |-> 0]
\* no query made: the call and its arguments, what it returned (the keys,
\* whether the result is nil, the Count, the error), and whether an earlier
\* query on this automaton failed
NoQueryOptions ==
    [Prefix |-> <<>>, StartKey |-> <<>>, EndKey |-> <<>>, RegexPattern |-> <<>>,
     FuzzyPattern |-> <<>>, FuzzyMaxDistance |-> 0, Limit |-> 0]
NoCq ==
    [op |-> "none", prefix |-> <<>>, pattern |-> <<>>, options |-> NoQueryOptions,
     isNil |-> TRUE, Keys |-> <<>>, Count |-> 0, err |-> ErrNil,
     afterFailure |-> FALSE]
\* no storage allocated
NoAl == [op |-> "none"]

InitBuild ==
    /\ builder \in {NewFSABuilder, NewFSTBuilder, NewMinimizingBuilder}
    /\ fsa = NoFSA
    /\ res = NoRes
    /\ hist = NoHist
    /\ iter = NoIter
    /\ out = NoOut
    /\ fz = NoFz
    /\ so = NoSo
    /\ lru = NoLru
    /\ au = NoAu
    /\ cq = NoCq
    /\ al = NoAl

\* builder.Add(key, value)
Add ==
    \E key \in AllStrs, value \in Values :
        LET r == Builder_Add(builder, key, value)
        IN  /\ builder.kind = "SimpleFSABuilder" => value = 0
            /\ r[2] = ErrNil => Len(builder.keys) < MaxKeys
            /\ builder' = r[1]
            /\ res' = [op |-> "Add", key |-> key, err |-> r[2], fsa |-> NoFSA]
            /\ hist' = IF r[2] = ErrNil
                       THEN [hist EXCEPT !.accepted = Append(@, key),
                                         !.values = Append(@, value)]
                       ELSE hist
            /\ UNCHANGED <<fsa, iter, out, fz, so, lru, au, cq, al>>

\* builder.Build()
Build ==
    /\ res' = [op |-> "Build", key |-> <<>>, err |-> ErrNil,
               fsa |-> Builder_Build(builder)]
    /\ hist' = [hist EXCEPT !.frozen = TRUE]
    /\ UNCHANGED <<builder, fsa, iter, out, fz, so, lru, au, cq, al>>

\* builder.Reset() (SimpleFSABuilder only: the other builders have none);
\* res.key is the last key the builder held before the call
Reset ==
    /\ builder.kind = "SimpleFSABuilder"
    /\ builder' = SimpleFSABuilder_Reset(builder)
    /\ res' = [op |-> "Reset", key |-> builder.lastKey.b, err |-> ErrNil,
               fsa |-> NoFSA]
    /\ hist' = NoHist
    /\ UNCHANGED <<fsa, iter, out, fz, so, lru, au, cq, al>>

Next == Add \/ Build \/ Reset

Spec == InitBuild /\ [][Next]_vars

-----------------------------------------------------------------------------
(* Properties of the builder protocol *)

Last(s) == s[Len(s)]

StrictlyIncreasing(s) ==
    \A i \in 1..(Len(s) - 1) : bytes_Compare(s[i], s[i + 1]) < 0

\* the keys Add accepted since the builder was made or Reset, as a set
AcceptedKeys == Range(hist.accepted)

\* the strings Contains is asked about: every key, prefix and one-byte extension
Probes == Strs(MaxLen + 1)

\* C1: after strictly increasing non-empty keys K were added to a
\* SimpleFSABuilder, the FSA that Build returns contains every key of K, no
\* other byte string (no proper prefix, no extension), and has Len() = |K|.
C1_BuildContains ==
    (res.op = "Build" /\ builder.kind = "SimpleFSABuilder") =>
        /\ \A k \in Probes : SimpleFSA_Contains(res.fsa, k) <=> (k \in AcceptedKeys)
        /\ SimpleFSA_Len(res.fsa) = Cardinality(AcceptedKeys)
        /\ StrictlyIncreasing(hist.accepted)
        /\ <<>> \notin AcceptedKeys

\* a built SimpleFSA of two keys, the first a proper prefix of the second
C1_Witness ==
    /\ res.op = "Build"
    /\ builder.kind = "SimpleFSABuilder"
    /\ Len(hist.accepted) = 2
    /\ bytes_HasPrefix(hist.accepted[2], hist.accepted[1])
    /\ SimpleFSA_Contains(res.fsa, hist.accepted[2])

\* the suffixes that lead from the prefix p to a key of K
RightLanguage(K, p) ==
    {SubSeq(k, Len(p) + 1, Len(k)) : k \in {x \in K : bytes_HasPrefix(x, p)}}

\* the states of the suffix-shared graph of the key set K: one per distinct
\* canonical signature, i.e. per distinct right language of a prefix of a key
SharedStates(K) ==
    UNION {{RightLanguage(K, SubSeq(k, 1, n)) : n \in 0..Len(k)} : k \in K}

\* C3: the minimizing builder stores one state per canonical signature, and
\* NumStates() of what it builds counts those shared states rather than keys
\* (stated for keys whose values are all 0, where the signature of a state is
\* its finality and its labelled transitions).
C3_NumStatesCountsSharedStates ==
    (/\ res.op = "Build"
     /\ builder.kind = "MinimizingBuilder"
     /\ Len(res.fsa.keys) > 0
     /\ \A i \in 1..Len(res.fsa.values) : res.fsa.values[i] = 0) =>
        MinimizedFST_NumStates(res.fsa) = Cardinality(SharedStates(Range(res.fsa.keys)))

\* the last key Add accepted, nil if there is none
LastAccepted ==
    IF hist.accepted = <<>> THEN NilSlice ELSE Slice(Last(hist.accepted))

\* what the key-ordering validator of section 4.1 answers for key
ValidatorErr(key) ==
    IF Len(key) = 0 THEN ErrEmptyKey
    ELSE IF LastAccepted.isNil THEN ErrNil
    ELSE IF key = LastAccepted.b THEN ErrDuplicateKey
    ELSE IF bytes_Compare(key, LastAccepted.b) < 0 THEN ErrUnorderedKey
    ELSE ErrNil

\* C4: SimpleFSABuilder.Add(key) fails with the empty-key error for a key of
\* length zero, with the duplicate error for the last accepted key, with the
\* ordering error for a key smaller than the last accepted key; otherwise the
\* key is accepted and becomes the last key.
C4_SimpleAddOutcome ==
    [][(res'.op = "Add" /\ builder.kind = "SimpleFSABuilder") =>
          /\ res'.err = ValidatorErr(res'.key)
          /\ (res'.err = ErrNil) =>
                (builder'.lastKey = Slice(res'.key)
                 /\ builder'.keys = Append(builder.keys, res'.key))]_vars

\* an Add of a non-empty key that a SimpleFSABuilder holding two keys
\* rejected with the ordering error
C4_Witness ==
    /\ builder.kind = "SimpleFSABuilder"
    /\ res.op = "Add"
    /\ res.err = ErrUnorderedKey
    /\ Len(res.key) > 0
    /\ Len(builder.keys) = 2

\* C5: every builder accepts a key if and only if it is non-empty and
\* strictly greater than the last accepted key.
C5_SameValidatorEverywhere ==
    [][(res'.op = "Add") =>
          ((res'.err = ErrNil) <=>
              (/\ Len(res'.key) > 0
               /\ (LastAccepted.isNil \/ bytes_Compare(res'.key, LastAccepted.b) > 0)))]_vars

\* C6: an Add that returns an error leaves the builder as it was: the
\* accumulated keys and values, the last accepted key and Len().
C6_FailedAddChangesNothing ==
    [][(res'.op = "Add" /\ res'.err # ErrNil) =>
          (/\ builder' = builder
           /\ SimpleFSABuilder_Len(builder') = SimpleFSABuilder_Len(builder)
           /\ Builder_Build(builder') = Builder_Build(builder))]_vars

\* a rejected Add on a builder that holds keys
C6_Witness ==
    /\ res.op = "Add"
    /\ res.err # ErrNil
    /\ Len(builder.keys) = 2
    /\ builder.kind = "MinimizingBuilder"

\* C7: after Build, an Add on the same builder is not accepted until Reset.
C7_BuildFreezes ==
    [][(hist.frozen /\ res'.op = "Add") => res'.err # ErrNil]_vars

-----------------------------------------------------------------------------
(* Iterators.  iter is the iterator struct (pos is SimpleFSAIterator.pos,   *)
(* FSTIterator.index or currentIdx); out is what its client has seen: the   *)
(* call that made it and its arguments, the keys the traversal produced     *)
(* since it began or was Reset, whether Next has reported exhaustion, the   *)
(* number of Reset calls, the method called last with the boolean it        *)
(* returned, and the target of the last Seek.                               *)

\* string(b) of a []byte: nil converts to ""
string(s) == s.b

\* SimpleFSA.Iterator
SimpleFSA_Iterator(f) ==
    [NoIter EXCEPT !.impl = "SimpleFSAIterator", !.pos = -1]

\* SimpleFSA.PrefixIterator
SimpleFSA_PrefixIterator(f, prefix) ==
    [NoIter EXCEPT !.impl = "SimpleFSAIterator", !.pos = -1, !.prefix = prefix]

\* SimpleFSA.RangeIterator
SimpleFSA_RangeIterator(f, start, end) ==
    [NoIter EXCEPT !.impl = "SimpleFSAIterator", !.pos = -1,
                   !.start = start, !.end = end]

\* SimpleFSAIterator.Next with > in place of >= in the end check
RECURSIVE SimpleNextLoop_InclusiveEnd(_, _, _)
SimpleNextLoop_InclusiveEnd(keys, it, pos) ==
    IF pos < Len(keys)
    THEN LET key == keys[pos + 1]
         IN  IF ~it.prefix.isNil /\ ~bytes_HasPrefix(key, it.prefix.b)
             THEN IF /\ bytes_Compare(key, it.prefix.b) > 0
                     /\ ~bytes_HasPrefix(it.prefix.b, key)
                  THEN <<pos, FALSE>>
                  ELSE SimpleNextLoop_InclusiveEnd(keys, it, pos + 1)
             ELSE IF ~it.start.isNil /\ bytes_Compare(key, it.start.b) < 0
             THEN SimpleNextLoop_InclusiveEnd(keys, it, pos + 1)
             ELSE IF ~it.end.isNil /\ bytes_Compare(key, it.end.b) > 0
             THEN <<pos, FALSE>>
             ELSE <<pos, TRUE>>
    ELSE <<pos, FALSE>>

\* the for loop of SimpleFSAIterator.Next from position pos: <<pos, result>>
RECURSIVE SimpleNextLoop(_, _, _)
SimpleNextLoop(keys, it, pos) ==
    IF pos < Len(keys)
    THEN LET key == keys[pos + 1]
         IN  IF ~it.prefix.isNil /\ ~bytes_HasPrefix(key, it.prefix.b)
             THEN IF /\ bytes_Compare(key, it.prefix.b) > 0
                     /\ ~bytes_HasPrefix(it.prefix.b, key)
                  THEN <<pos, FALSE>>
                  ELSE SimpleNextLoop(keys, it, pos + 1)
             ELSE IF ~it.start.isNil /\ bytes_Compare(key, it.start.b) < 0
             THEN SimpleNextLoop(keys, it, pos + 1)
             ELSE IF ~it.end.isNil /\ bytes_Compare(key, it.end.b) >= 0
             THEN <<pos, FALSE>>
             ELSE <<pos, TRUE>>
    ELSE <<pos, FALSE>>

\* SimpleFSAIterator.Next that starts over from the first key when it finds none
SimpleFSAIterator_Next_Rewind(f, it) ==
    LET r == SimpleNextLoop(f.keys, it, it.pos + 1)
    IN  <<[it EXCEPT !.pos = IF r[2] THEN r[1] ELSE -1], r[2]>>

\* SimpleFSAIterator.Next: <<iterator after the call, result>>
SimpleFSAIterator_Next(f, it) ==
    LET r == SimpleNextLoop(f.keys, it, it.pos + 1)
    IN  <<[it EXCEPT !.pos = r[1]], r[2]>>

\* SimpleFSAIterator.Key: a copy of the current key, nil outside the keys
SimpleFSAIterator_Key(f, it) ==
    IF it.pos >= 0 /\ it.pos < Len(f.keys) THEN Slice(f.keys[it.pos + 1]) ELSE NilSlice

\* the binary search of SimpleFSAIterator.Seek: the final value of left
RECURSIVE SeekLoop(_, _, _, _)
SeekLoop(keys, target, left, right) ==
    IF left < right
    THEN LET mid == (left + right) \div 2
         IN  IF bytes_Compare(keys[mid + 1], target) < 0
             THEN SeekLoop(keys, target, mid + 1, right)
             ELSE SeekLoop(keys, target, left, mid)
    ELSE left

\* SimpleFSAIterator.Seek that starts Next() at the first key >= target,
\* not before it
SimpleFSAIterator_Seek_Past(f, it, target) ==
    LET left == SeekLoop(f.keys, target.b, 0, Len(f.keys))
    IN  SimpleFSAIterator_Next(f, [it EXCEPT !.pos = left])

\* SimpleFSAIterator.Seek: <<iterator after the call, result>>
SimpleFSAIterator_Seek(f, it, target) ==
    LET left == SeekLoop(f.keys, target.b, 0, Len(f.keys))
    IN  SimpleFSAIterator_Next(f, [it EXCEPT !.pos = left - 1])

\* SimpleFSAIterator.Reset rewinding to the first key instead of before it
SimpleFSAIterator_Reset_Zero(it) == [it EXCEPT !.pos = 0]

\* SimpleFSAIterator.Reset
SimpleFSAIterator_Reset(it) == [it EXCEPT !.pos = -1]

\* FST.Iterator
FST_Iterator(f) == [NoIter EXCEPT !.impl = "FSTIterator", !.pos = 0]

\* FST.RangeIterator
FST_RangeIterator(f, startKey, endKey) ==
    LET startIdx == sort_SearchStrings(f.keys, string(startKey))
        endIdx == sort_SearchStrings(f.keys, string(endKey))
    IN  [NoIter EXCEPT !.impl = "FSTRangeIterator", !.startIdx = startIdx,
                       !.endIdx = endIdx, !.pos = startIdx]

\* FST.PrefixIterator
FST_PrefixIterator(f, prefix) ==
    LET startIdx == sort_SearchStrings(f.keys, string(prefix))
    IN  [NoIter EXCEPT !.impl = "FSTPrefixIterator", !.prefix = Slice(string(prefix)),
                       !.startIdx = startIdx, !.pos = startIdx]

\* FSTIterator.HasNext
FSTIterator_HasNext(f, it) == it.pos < Len(f.keys)

\* FSTRangeIterator.HasNext
FSTRangeIterator_HasNext(f, it) == it.pos < it.endIdx /\ it.pos < Len(f.keys)

\* FSTPrefixIterator.HasNext without the test of the prefix
FSTPrefixIterator_HasNext_NoPrefixTest(f, it) == it.pos < Len(f.keys)

\* FSTPrefixIterator.HasNext
FSTPrefixIterator_HasNext(f, it) ==
    IF it.pos >= Len(f.keys) THEN FALSE
    ELSE LET key == f.keys[it.pos + 1]
         IN  /\ Len(key) >= Len(it.prefix.b)
             /\ SubSeq(key, 1, Len(it.prefix.b)) = it.prefix.b

\* HasNext of the FST iterator at hand
FST_HasNext(f, it) ==
    CASE it.impl = "FSTIterator" -> FSTIterator_HasNext(f, it)
      [] it.impl = "FSTRangeIterator" -> FSTRangeIterator_HasNext(f, it)
      [] it.impl = "FSTPrefixIterator" -> FSTPrefixIterator_HasNext(f, it)

\* Next of the three FST iterators: <<iterator after the call, key, value>>,
\* the key nil when HasNext is false
FST_Next(f, it) ==
    IF ~FST_HasNext(f, it) THEN <<it, NilSlice, 0>>
    ELSE <<[it EXCEPT !.pos = @ + 1], Slice(f.keys[it.pos + 1]), f.values[it.pos + 1]>>

\* the builders that a sequence of at most n Add calls leaves behind
RECURSIVE BuildersAfter(_, _, _)
BuildersAfter(B, vals, n) ==
    IF n = 0 THEN B
    ELSE BuildersAfter(
             B \cup {Builder_Add(b, k, v)[1] : b \in B, k \in AllStrs, v \in vals},
             vals, n - 1)

\* the automata the builders build (the FSTs with every value 0)
BuiltAutomata ==
    {Builder_Build(b) : b \in BuildersAfter({NewFSABuilder, NewFSTBuilder}, {0}, MaxKeys)}

\* the prefixes and range bounds a client passes: nil or a byte string
Args == {NilSlice} \cup {Slice(s) : s \in AllStrs}

InitIter ==
    /\ fsa \in BuiltAutomata
    /\ builder = NewFSABuilder
    /\ res = NoRes
    /\ hist = NoHist
    /\ iter = NoIter
    /\ out = NoOut
    /\ fz = NoFz
    /\ so = NoSo
    /\ lru = NoLru
    /\ au = NoAu
    /\ cq = NoCq
    /\ al = NoAl

\* fsa.Iterator()
CallIterator ==
    /\ iter.impl = "none"
    /\ iter' = IF fsa.kind = "SimpleFSA" THEN SimpleFSA_Iterator(fsa)
               ELSE FST_Iterator(fsa)
    /\ out' = [NoOut EXCEPT !.call = "Iterator"]
    /\ UNCHANGED <<builder, fsa, res, hist, fz, so, lru, au, cq, al>>

\* fsa.PrefixIterator(prefix)
CallPrefixIterator ==
    \E prefix \in Args :
        /\ iter.impl = "none"
        /\ iter' = IF fsa.kind = "SimpleFSA" THEN SimpleFSA_PrefixIterator(fsa, prefix)
                   ELSE FST_PrefixIterator(fsa, prefix)
        /\ out' = [NoOut EXCEPT !.call = "PrefixIterator", !.p = prefix]
        /\ UNCHANGED <<builder, fsa, res, hist, fz, so, lru, au, cq, al>>

\* fsa.RangeIterator(start, end)
CallRangeIterator ==
    \E start \in Args, end \in Args :
        /\ iter.impl = "none"
        /\ iter' = IF fsa.kind = "SimpleFSA" THEN SimpleFSA_RangeIterator(fsa, start, end)
                   ELSE FST_RangeIterator(fsa, start, end)
        /\ out' = [NoOut EXCEPT !.call = "RangeIterator", !.a = start, !.b = end]
        /\ UNCHANGED <<builder, fsa, res, hist, fz, so, lru, au, cq, al>>

\* one round of the client's loop over a SimpleFSA iterator:
\* for iter.Next() { keys = append(keys, iter.Key()) }
SimpleIterNext ==
    /\ iter.impl = "SimpleFSAIterator"
    /\ ~out.done
    /\ LET r == SimpleFSAIterator_Next(fsa, iter)
       IN  /\ iter' = r[1]
           /\ out' = IF r[2]
                     THEN [out EXCEPT !.keys = Append(@, SimpleFSAIterator_Key(fsa, r[1]).b),
                                      !.last = "Next", !.ok = TRUE]
                     ELSE [out EXCEPT !.done = TRUE, !.last = "Next", !.ok = FALSE]
    /\ UNCHANGED <<builder, fsa, res, hist, fz, so, lru, au, cq, al>>

\* one round of the client's loop over an FST iterator:
\* for iter.HasNext() { key, _ := iter.Next(); keys = append(keys, key) }
FSTIterNext ==
    /\ iter.impl \in {"FSTIterator", "FSTRangeIterator", "FSTPrefixIterator"}
    /\ ~out.done
    /\ LET r == FST_Next(fsa, iter)
       IN  /\ iter' = r[1]
           /\ out' = IF FST_HasNext(fsa, iter)
                     THEN [out EXCEPT !.keys = Append(@, r[2].b),
                                      !.last = "Next", !.ok = TRUE]
                     ELSE [out EXCEPT !.done = TRUE, !.last = "Next", !.ok = FALSE]
    /\ UNCHANGED <<builder, fsa, res, hist, fz, so, lru, au, cq, al>>

\* iter.Reset() (SimpleFSAIterator only), at any point of a traversal
IterReset ==
    /\ iter.impl = "SimpleFSAIterator"
    /\ out.resets < MaxResets
    /\ iter' = SimpleFSAIterator_Reset(iter)
    /\ out' = [out EXCEPT !.keys = <<>>, !.done = FALSE, !.resets = @ + 1,
                          !.last = "Reset", !.ok = FALSE]
    /\ UNCHANGED <<builder, fsa, res, hist, fz, so, lru, au, cq, al>>

NextIter ==
    \/ CallIterator
    \/ CallPrefixIterator
    \/ CallRangeIterator
    \/ SimpleIterNext
    \/ FSTIterNext
    \/ IterReset

SpecIter == InitIter /\ [][NextIter]_vars

\* A client that also seeks.  It reads Key() after a Seek that returned
\* true, so out.keys holds the keys seen since the last Seek; a Seek makes
\* a further Next possible whatever it returned.
InitSeek == InitIter /\ fsa.kind = "SimpleFSA"

\* iter.Seek(target)
IterSeek ==
    \E target \in Args :
        /\ iter.impl = "SimpleFSAIterator"
        /\ LET r == SimpleFSAIterator_Seek(fsa, iter, target)
           IN  /\ iter' = r[1]
               /\ out' = [out EXCEPT
                              !.keys = IF r[2]
                                       THEN <<SimpleFSAIterator_Key(fsa, r[1]).b>>
                                       ELSE <<>>,
                              !.done = FALSE, !.last = "Seek", !.ok = r[2],
                              !.target = target]
        /\ UNCHANGED <<builder, fsa, res, hist, fz, so, lru, au, cq, al>>

NextSeek ==
    \/ CallIterator
    \/ CallPrefixIterator
    \/ CallRangeIterator
    \/ IterSeek
    \/ SimpleIterNext

SpecSeek == InitSeek /\ [][NextSeek]_vars

-----------------------------------------------------------------------------
(* Properties of the iterators *)

\* the key set K of the automaton under iteration
KeySet == Range(fsa.keys)

\* C8: a traversal of Iterator() until Next reports exhaustion produces
\* exactly the keys of K, each once, in strictly increasing order, and does
\* so again after every Reset().
C8_FullIteration ==
    (out.call = "Iterator") =>
        /\ StrictlyIncreasing(out.keys)
        /\ Range(out.keys) \subseteq KeySet
        /\ out.done => (Range(out.keys) = KeySet
                        /\ Len(out.keys) = Cardinality(KeySet))

\* a second full traversal, after Reset, of an automaton of two keys
C8_Witness ==
    /\ out.call = "Iterator"
    /\ iter.impl = "SimpleFSAIterator"
    /\ out.resets >= 1
    /\ out.done
    /\ Len(out.keys) = 2

\* the keys of K that start with p
PrefixBlock(p) == {k \in KeySet : bytes_HasPrefix(k, p)}

\* the index of the first key after the block of p (len(keys) if there is none)
FirstAfterBlock(p) ==
    Cardinality({k \in KeySet : bytes_Compare(k, p) < 0}) + Cardinality(PrefixBlock(p))

\* C9: a traversal of PrefixIterator(p) produces exactly the keys of K that
\* start with p, in ascending order, never a key outside that block, and
\* reports exhaustion at the first key after the block.
C9_PrefixIteration ==
    (out.call = "PrefixIterator") =>
        /\ StrictlyIncreasing(out.keys)
        /\ Range(out.keys) \subseteq PrefixBlock(out.p.b)
        /\ out.done => (Range(out.keys) = PrefixBlock(out.p.b)
                        /\ iter.pos = FirstAfterBlock(out.p.b))

\* a finished prefix traversal that skipped a smaller key, produced a key
\* and stopped in front of a larger one
C9_Witness ==
    /\ out.call = "PrefixIterator"
    /\ out.done
    /\ Len(out.keys) >= 1
    /\ iter.pos < Len(fsa.keys)
    /\ Len(out.p.b) >= 1

\* the keys k of K with a <= k < b
InRange(a, b) ==
    {k \in KeySet : bytes_Compare(k, a) >= 0 /\ bytes_Compare(k, b) < 0}

\* C10: a traversal of RangeIterator(a, b) produces exactly the keys k of K
\* with a <= k < b, in ascending order, for every a and b (a > b and a = b
\* included); b itself is never produced.
C10_RangeIteration ==
    (out.call = "RangeIterator" /\ ~out.a.isNil /\ ~out.b.isNil) =>
        /\ StrictlyIncreasing(out.keys)
        /\ Range(out.keys) \subseteq InRange(out.a.b, out.b.b)
        /\ out.b.b \notin Range(out.keys)
        /\ out.done => Range(out.keys) = InRange(out.a.b, out.b.b)

\* a finished range traversal that produced a key and whose end is a key
C10_Witness ==
    /\ out.call = "RangeIterator"
    /\ ~out.a.isNil
    /\ ~out.b.isNil
    /\ out.done
    /\ Len(out.keys) >= 1
    /\ out.b.b \in KeySet

\* a finished range traversal with a > b over keys that lie between them
C10_WitnessReversed ==
    /\ out.call = "RangeIterator"
    /\ ~out.a.isNil
    /\ ~out.b.isNil
    /\ out.done
    /\ bytes_Compare(out.a.b, out.b.b) > 0
    /\ \E k \in KeySet : bytes_Compare(k, out.b.b) >= 0 /\ bytes_Compare(k, out.a.b) < 0

\* the keys the iterator at hand is restricted to: all of K, the keys with
\* the prefix, or the keys from start (if given) to before end (if given)
Restricted ==
    {k \in KeySet :
        /\ ~iter.prefix.isNil => bytes_HasPrefix(k, iter.prefix.b)
        /\ ~iter.start.isNil => bytes_Compare(k, iter.start.b) >= 0
        /\ ~iter.end.isNil => bytes_Compare(k, iter.end.b) < 0}

\* the keys of the iterator's sequence that are >= t
AtLeast(t) == {k \in Restricted : bytes_Compare(k, t) >= 0}

\* the smallest byte string of a non-empty set
MinKey(S) == CHOOSE k \in S : \A j \in S : bytes_Compare(k, j) <= 0

\* C11: the Next() that follows Seek(t) returns true and leaves Key() at the
\* smallest key >= t, or returns false if there is no key >= t.
C11_SeekThenNext ==
    [][(out.last = "Seek" /\ out'.last = "Next") =>
          IF AtLeast(out.target.b) = {}
          THEN ~out'.ok
          ELSE out'.ok /\ Last(out'.keys) = MinKey(AtLeast(out.target.b))]_vars

-----------------------------------------------------------------------------
(* Fuzzy search.  A LevenshteinAutomaton is its pattern, its maxDistance    *)
(* and the set of the cells <<position, errors>> of its States table whose  *)
(* IsValid flag is set.                                                     *)

\* len(la.States): the rows of the table
Rows(la) == Len(la.Pattern) + la.MaxDistance + 1

\* NewLevenshteinAutomaton
NewLevenshteinAutomaton(pattern, maxDistance) ==
    [Pattern |-> pattern, MaxDistance |-> maxDistance,
     States |-> {<<e, e>> : e \in 0..maxDistance}]

\* Step's cells with a substitution that costs no error
StepCell_FreeSubstitution(la, char, pos, err) ==
    LET patternLen == Len(la.Pattern)
    IN  (IF pos < patternLen /\ pos + 1 < Rows(la)
         THEN {<<pos + 1, err>>} ELSE {})
        \cup
        (IF err + 1 <= la.MaxDistance /\ pos < Rows(la)
         THEN {<<pos, err + 1>>} ELSE {})
        \cup
        (IF pos < patternLen /\ err + 1 <= la.MaxDistance /\ pos + 1 < Rows(la)
         THEN {<<pos + 1, err + 1>>} ELSE {})

\* the cells LevenshteinAutomaton.Step sets from the valid cell <<pos, err>>
StepCell(la, char, pos, err) ==
    LET patternLen == Len(la.Pattern)
        nextErr == IF pos < patternLen /\ la.Pattern[pos + 1] # char
                   THEN err + 1 ELSE err
    IN  (IF pos < patternLen /\ nextErr <= la.MaxDistance /\ pos + 1 < Rows(la)
         THEN {<<pos + 1, nextErr>>} ELSE {})
        \cup
        (IF err + 1 <= la.MaxDistance /\ pos < Rows(la)
         THEN {<<pos, err + 1>>} ELSE {})
        \cup
        (IF pos < patternLen /\ err + 1 <= la.MaxDistance /\ pos + 1 < Rows(la)
         THEN {<<pos + 1, err + 1>>} ELSE {})

\* LevenshteinAutomaton.Step
LevenshteinAutomaton_Step(la, char) ==
    [la EXCEPT !.States = UNION {StepCell(la, char, c[1], c[2]) : c \in la.States}]

\* LevenshteinAutomaton.IsMatch looking at every row of the table
LevenshteinAutomaton_IsMatch_AnyRow(la) == la.States # {}

\* LevenshteinAutomaton.IsMatch
LevenshteinAutomaton_IsMatch(la) ==
    LET patternLen == Len(la.Pattern)
    IN  \E err \in 0..la.MaxDistance :
            \/ patternLen < Rows(la) /\ <<patternLen, err>> \in la.States
            \/ \E pos \in patternLen..(patternLen + err) :
                   pos < Rows(la) /\ <<pos, err>> \in la.States

\* LevenshteinAutomaton.CanMatch
LevenshteinAutomaton_CanMatch(la) == la.States # {}

\* hasPrefix
hasPrefix(s, prefix) == Len(s) >= Len(prefix) /\ SubSeq(s, 1, Len(prefix)) = prefix

RECURSIVE fuzzySearchRecursive(_, _, _, _)
RECURSIVE fuzzySearchLoop(_, _, _, _, _)

\* the for loop of fuzzySearchRecursive from key i with the bytes in tried
\* already taken: the results it appends
fuzzySearchLoop(keys, prefix, i, automaton, tried) ==
    IF i >= Len(keys) THEN <<>>
    ELSE LET key == keys[i + 1]
         IN  IF Len(key) <= Len(prefix) \/ ~hasPrefix(key, prefix)
             THEN IF /\ Len(prefix) > 0
                     /\ ~hasPrefix(key, SubSeq(prefix, 1, Len(prefix) - 1))
                  THEN <<>>
                  ELSE fuzzySearchLoop(keys, prefix, i + 1, automaton, tried)
             ELSE LET nextChar == key[Len(prefix) + 1]
                      nextAutomaton == LevenshteinAutomaton_Step(automaton, nextChar)
                  IN  IF nextChar \in tried
                      THEN fuzzySearchLoop(keys, prefix, i + 1, automaton, tried)
                      ELSE (IF LevenshteinAutomaton_CanMatch(nextAutomaton)
                            THEN fuzzySearchRecursive(keys, Append(prefix, nextChar),
                                                      i, nextAutomaton)
                            ELSE <<>>)
                           \o fuzzySearchLoop(keys, prefix, i + 1, automaton,
                                              tried \cup {nextChar})

\* fuzzySearchRecursive: the results it appends, in order
fuzzySearchRecursive(keys, prefix, index, automaton) ==
    LET here == IF /\ index < Len(keys)
                   /\ keys[index + 1] = prefix
                   /\ LevenshteinAutomaton_IsMatch(automaton)
                THEN <<prefix>> ELSE <<>>
    IN  IF ~LevenshteinAutomaton_CanMatch(automaton) THEN here
        ELSE here \o fuzzySearchLoop(keys, prefix, index, automaton, {})

\* make([]T, n) panics ("makeslice: len out of range") for a negative n
make_Panics(n) == n < 0

\* NewLevenshteinAutomaton's make calls: the table of
\* patternLen+maxDistance+1 rows, then one row of maxDistance+1 cells for
\* each row of the table
NewLevenshteinAutomaton_Panics(pattern, maxDistance) ==
    LET rows == Len(pattern) + maxDistance + 1
    IN  \/ make_Panics(rows)
        \/ rows > 0 /\ make_Panics(maxDistance + 1)

\* FuzzySearch over a SimpleFSA: whether the call panics
FuzzySearch_Panics(f, pattern, maxDistance) ==
    f.kind = "SimpleFSA" /\ NewLevenshteinAutomaton_Panics(pattern, maxDistance)

\* FuzzySearch over a SimpleFSA
FuzzySearch(f, pattern, maxDistance) ==
    sort_Strings(fuzzySearchRecursive(f.keys, <<>>, 0,
                                      NewLevenshteinAutomaton(pattern, maxDistance)))

\* min
min(a, b, c) == IF a <= b /\ a <= c THEN a ELSE IF b <= c THEN b ELSE c

\* computeLevenshteinDistance: the dynamic-programming matrix dp
computeLevenshteinDistance(s1, s2) ==
    LET dp[i \in 0..Len(s1), j \in 0..Len(s2)] ==
            IF j = 0 THEN i
            ELSE IF i = 0 THEN j
            ELSE min(dp[i - 1, j] + 1,
                     dp[i, j - 1] + 1,
                     dp[i - 1, j - 1] + (IF s1[i] # s2[j] THEN 1 ELSE 0))
    IN  dp[Len(s1), Len(s2)]

\* the least maxDistance a search is called with: maxDistance is an int,
\* and two below zero is where both make calls get a negative length
MinDist == 0 - 2

InitFuzzy ==
    /\ fsa \in {f \in BuiltAutomata : f.kind = "SimpleFSA"}
    /\ builder = NewFSABuilder
    /\ res = NoRes
    /\ hist = NoHist
    /\ iter = NoIter
    /\ out = NoOut
    /\ fz = NoFz
    /\ so = NoSo
    /\ lru = NoLru
    /\ au = NoAu
    /\ cq = NoCq
    /\ al = NoAl

\* FuzzySearch(fsa, pattern, maxDistance), the one call that is observed (the
\* search reads the automaton only, so a call leaves nothing for the next)
CallFuzzySearch ==
    \E pattern \in AllStrs, maxDistance \in MinDist..MaxDist :
        /\ ~fz.done /\ ~fz.panic
        /\ fz' = IF FuzzySearch_Panics(fsa, pattern, maxDistance)
                 THEN [pattern |-> pattern, maxDistance |-> maxDistance,
                       done |-> FALSE, results |-> <<>>, panic |-> TRUE]
                 ELSE [pattern |-> pattern, maxDistance |-> maxDistance,
                       done |-> TRUE, panic |-> FALSE,
                       results |-> FuzzySearch(fsa, pattern, maxDistance)]
        /\ UNCHANGED <<builder, fsa, res, hist, iter, out, so, lru, au, cq, al>>

NextFuzzy == CallFuzzySearch

SpecFuzzy == InitFuzzy /\ [][NextFuzzy]_vars

\* the keys within edit distance d of pattern
WithinDistance(pattern, d) ==
    {k \in KeySet : computeLevenshteinDistance(pattern, k) <= d}

\* C2: FuzzySearch(fsa(K), pattern, d) returns exactly the keys of K whose
\* Levenshtein distance to pattern is at most d, in ascending order.
C2_FuzzyExact ==
    fz.done =>
        /\ StrictlyIncreasing(fz.results)
        /\ Range(fz.results) = WithinDistance(fz.pattern, fz.maxDistance)

-----------------------------------------------------------------------------
(* Set operations.  so is one call: the operation, the operands in         *)
(* argument order, the automaton returned, and same: the index of the      *)
(* operand whose pointer the call returned (0 if it returned a newly built *)
(* automaton), and the error returned.                                     *)

\* most operands of one set operation
MaxOperands == 3

\* the keys the operands are made of
OperandKeys == {<<1>>, <<1, 2>>, <<2>>}

\* SetOperationType
UnionOp == "UnionOp"
IntersectionOp == "IntersectionOp"
DifferenceOp == "DifferenceOp"
SymmetricDifferenceOp == "SymmetricDifferenceOp"
SetOperationTypes == {UnionOp, IntersectionOp, DifferenceOp, SymmetricDifferenceOp}

\* for key := range m { s = append(s, key) }: the keys of a map in some order
RECURSIVE mapKeys(_)
mapKeys(m) ==
    IF m = {} THEN <<>>
    ELSE LET key == CHOOSE k \in m : TRUE
         IN  <<key>> \o mapKeys(m \ {key})

\* for iter.Next() { ... string(iter.Key()) ... }: the keys the loop visits
RECURSIVE iterKeys(_, _)
iterKeys(f, it) ==
    LET r == SimpleFSAIterator_Next(f, it)
    IN  IF r[2] THEN <<string(SimpleFSAIterator_Key(f, r[1]))>> \o iterKeys(f, r[1])
        ELSE <<>>

\* the keys a loop over fsa.Iterator() visits
allKeys(f) == iterKeys(f, SimpleFSA_Iterator(f))

\* executeUnion that leaves out the last operand
executeUnion_DropLast(fsas) ==
    LET keySet == UNION {Range(allKeys(fsas[i])) : i \in 1..(Len(fsas) - 1)}
    IN  sort_Strings(mapKeys(keySet))

\* SetOperation.executeUnion
executeUnion(fsas) ==
    LET keySet == UNION {Range(allKeys(fsas[i])) : i \in 1..Len(fsas)}
    IN  sort_Strings(mapKeys(keySet))

\* the narrowing loop with the break taken before candidates is replaced
RECURSIVE intersectionLoop_BreakFirst(_, _, _)
intersectionLoop_BreakFirst(fsas, i, candidates) ==
    IF i < Len(fsas)
    THEN LET newCandidates ==
                 {c \in candidates : SimpleFSA_Contains(fsas[i + 1], c)}
         IN  IF newCandidates = {} THEN candidates
             ELSE intersectionLoop_BreakFirst(fsas, i + 1, newCandidates)
    ELSE candidates

\* the narrowing loop of executeIntersection from operand i (0-based)
RECURSIVE intersectionLoop(_, _, _)
intersectionLoop(fsas, i, candidates) ==
    IF i < Len(fsas)
    THEN LET newCandidates ==
                 {c \in candidates : SimpleFSA_Contains(fsas[i + 1], c)}
         IN  IF newCandidates = {} THEN newCandidates
             ELSE intersectionLoop(fsas, i + 1, newCandidates)
    ELSE candidates

\* SetOperation.executeIntersection
executeIntersection(fsas) ==
    IF Len(fsas) = 0 THEN <<>>
    ELSE sort_Strings(mapKeys(intersectionLoop(fsas, 1, Range(allKeys(fsas[1])))))

\* the removing loop stopping after one operand
RECURSIVE differenceLoop_Once(_, _, _)
differenceLoop_Once(fsas, i, result) ==
    IF i < Len(fsas) /\ i < 2
    THEN differenceLoop_Once(fsas, i + 1,
                             {key \in result : ~SimpleFSA_Contains(fsas[i + 1], key)})
    ELSE result

\* the removing loop of executeDifference from operand i (0-based)
RECURSIVE differenceLoop(_, _, _)
differenceLoop(fsas, i, result) ==
    IF i < Len(fsas)
    THEN differenceLoop(fsas, i + 1,
                        {key \in result : ~SimpleFSA_Contains(fsas[i + 1], key)})
    ELSE result

\* SetOperation.executeDifference
executeDifference(fsas) ==
    IF Len(fsas) = 0 THEN <<>>
    ELSE sort_Strings(mapKeys(differenceLoop(fsas, 1, Range(allKeys(fsas[1])))))

\* for _, key := range resultKeys { builder.Add([]byte(key)) }, errors dropped
RECURSIVE addAll(_, _)
addAll(b, resultKeys) ==
    IF resultKeys = <<>> THEN b
    ELSE addAll(SimpleFSABuilder_Add(b, Head(resultKeys))[1], Tail(resultKeys))

RECURSIVE SetOperation_Execute(_, _)

\* the pairwise loop pairing every operand with the first one
RECURSIVE symmetricDifferenceLoop_Stale(_, _, _)
symmetricDifferenceLoop_Stale(fsas, i, current) ==
    IF i < Len(fsas)
    THEN symmetricDifferenceLoop_Stale(fsas, i + 1,
             SetOperation_Execute(SymmetricDifferenceOp, <<fsas[1], fsas[i + 1]>>).result)
    ELSE current

\* the pairwise loop of executeSymmetricDifference from operand i (0-based)
RECURSIVE symmetricDifferenceLoop(_, _, _)
symmetricDifferenceLoop(fsas, i, current) ==
    IF i < Len(fsas)
    THEN symmetricDifferenceLoop(fsas, i + 1,
             SetOperation_Execute(SymmetricDifferenceOp, <<current, fsas[i + 1]>>).result)
    ELSE current

\* SetOperation.executeSymmetricDifference
executeSymmetricDifference(fsas) ==
    IF Len(fsas) # 2
    THEN allKeys(symmetricDifferenceLoop(fsas, 1, fsas[1]))
    ELSE LET fsa1 == fsas[1]
             fsa2 == fsas[2]
             result ==
                 {key \in Range(allKeys(fsa1)) : ~SimpleFSA_Contains(fsa2, key)}
                 \cup {key \in Range(allKeys(fsa2)) : ~SimpleFSA_Contains(fsa1, key)}
         IN  sort_Strings(mapKeys(result))

\* SetOperation.Execute on NewSetOperation(operation, fsas...):
\* [result: the automaton returned, same: the operand it is, or 0]
SetOperation_Execute(operation, fsas) ==
    IF Len(fsas) = 0
    THEN [result |-> SimpleFSABuilder_Build(NewFSABuilder), same |-> 0]
    ELSE IF Len(fsas) = 1
    THEN [result |-> fsas[1], same |-> 1]
    ELSE LET resultKeys ==
                 CASE operation = UnionOp -> executeUnion(fsas)
                   [] operation = IntersectionOp -> executeIntersection(fsas)
                   [] operation = DifferenceOp -> executeDifference(fsas)
                   [] operation = SymmetricDifferenceOp ->
                          executeSymmetricDifference(fsas)
         IN  [result |-> SimpleFSABuilder_Build(addAll(NewFSABuilder, resultKeys)),
              same |-> 0]

\* Union(fsa, others...)
Union(f, others) == SetOperation_Execute(UnionOp, <<f>> \o others)

\* Intersection(fsa, others...)
Intersection(f, others) == SetOperation_Execute(IntersectionOp, <<f>> \o others)

\* Difference(fsa, others...)
Difference(f, others) == SetOperation_Execute(DifferenceOp, <<f>> \o others)

\* SymmetricDifference(fsa, other)
SymmetricDifference(f, other) ==
    SetOperation_Execute(SymmetricDifferenceOp, <<f, other>>)

\* the inner loop of FSTUnion with the exists test left out: the last
\* occurrence of a key sets its value
RECURSIVE unionKeysLoop_Overwrite(_, _, _)
unionKeysLoop_Overwrite(f, i, keyValueMap) ==
    IF i < Len(f.keys)
    THEN LET key == f.keys[i + 1]
         IN  unionKeysLoop_Overwrite(f, i + 1,
                 [k \in DOMAIN keyValueMap \cup {key} |->
                     IF k = key THEN f.values[i + 1] ELSE keyValueMap[k]])
    ELSE keyValueMap

\* the inner loop of FSTUnion over the keys of one operand from index i
RECURSIVE unionKeysLoop(_, _, _)
unionKeysLoop(f, i, keyValueMap) ==
    IF i < Len(f.keys)
    THEN LET key == f.keys[i + 1]
         IN  unionKeysLoop(f, i + 1,
                 IF key \in DOMAIN keyValueMap THEN keyValueMap
                 ELSE keyValueMap @@ (key :> f.values[i + 1]))
    ELSE keyValueMap

\* the outer loop of FSTUnion over the operands from index n
RECURSIVE unionLoop(_, _, _)
unionLoop(fsts, n, keyValueMap) ==
    IF n < Len(fsts)
    THEN unionLoop(fsts, n + 1, unionKeysLoop(fsts[n + 1], 0, keyValueMap))
    ELSE keyValueMap

\* for _, key := range keys { err := builder.Add(key, m[key]); if err != nil
\* { return nil, err } }: <<builder, error>>
RECURSIVE fstAddAll(_, _, _)
fstAddAll(b, keys, m) ==
    IF keys = <<>> THEN <<b, ErrNil>>
    ELSE LET r == FSTBuilder_Add(b, Head(keys), m[Head(keys)])
         IN  IF r[2] # ErrNil THEN r ELSE fstAddAll(r[1], Tail(keys), m)

\* the end of FSTUnion and FSTIntersection: sort the keys of the map, build
fstFromMap(m) ==
    LET keys == sort_Strings(mapKeys(DOMAIN m))
        r == fstAddAll(NewFSTBuilder, keys, m)
    IN  IF r[2] # ErrNil THEN [result |-> NoFSA, same |-> 0, err |-> r[2]]
        ELSE [result |-> FSTBuilder_Build(r[1]), same |-> 0, err |-> ErrNil]

\* FSTUnion(fsts...)
FSTUnion(fsts) ==
    IF Len(fsts) = 0
    THEN [result |-> FSTBuilder_Build(NewFSTBuilder), same |-> 0, err |-> ErrNil]
    ELSE fstFromMap(unionLoop(fsts, 0, <<>>))

\* the first loop of FSTIntersection: candidates[key] = fsts[0].values[i]
RECURSIVE candidatesLoop(_, _, _)
candidatesLoop(f, i, candidates) ==
    IF i < Len(f.keys)
    THEN LET key == f.keys[i + 1]
         IN  candidatesLoop(f, i + 1,
                 [k \in DOMAIN candidates \cup {key} |->
                     IF k = key THEN f.values[i + 1] ELSE candidates[k]])
    ELSE candidates

\* the narrowing loop of FSTIntersection from operand i
RECURSIVE fstIntersectionLoop(_, _, _)
fstIntersectionLoop(fsts, i, candidates) ==
    IF i < Len(fsts)
    THEN LET kept == {key \in DOMAIN candidates : FST_Contains(fsts[i + 1], key)}
         IN  fstIntersectionLoop(fsts, i + 1, [key \in kept |-> candidates[key]])
    ELSE candidates

\* FSTIntersection(fsts...)
FSTIntersection(fsts) ==
    IF Len(fsts) = 0
    THEN [result |-> FSTBuilder_Build(NewFSTBuilder), same |-> 0, err |-> ErrNil]
    ELSE IF Len(fsts) = 1
    THEN [result |-> fsts[1], same |-> 1, err |-> ErrNil]
    ELSE fstFromMap(fstIntersectionLoop(fsts, 1, candidatesLoop(fsts[1], 0, <<>>)))

\* the SimpleFSAs over OperandKeys
FSAOperands == {NewSimpleFSA(mapKeys(S)) : S \in SUBSET OperandKeys}

\* the keys the FST operands are made of
FSTOperandKeys == {<<1>>, <<1, 2>>}

\* the FSTs over FSTOperandKeys with values in Values
FSTOperands ==
    UNION {{FSTBuilder_Build([NewFSTBuilder EXCEPT !.keys = sort_Strings(mapKeys(S)),
                                                   !.values = vs]) :
               vs \in [1..Cardinality(S) -> Values]} : S \in SUBSET FSTOperandKeys}

\* the lists of at most n elements of S
SeqsUpTo(S, n) == UNION {[1..k -> S] : k \in 0..n}

InitSetOp ==
    /\ so \in {[NoSo EXCEPT !.fsas = fs] :
                  fs \in SeqsUpTo(FSAOperands, MaxOperands)
                         \cup SeqsUpTo(FSTOperands, MaxOperands)}
    /\ builder = NewFSABuilder
    /\ fsa = NoFSA
    /\ res = NoRes
    /\ hist = NoHist
    /\ iter = NoIter
    /\ out = NoOut
    /\ fz = NoFz
    /\ lru = NoLru
    /\ au = NoAu
    /\ cq = NoCq
    /\ al = NoAl

\* the operands are all of one kind
OperandsAre(kind) == \A i \in 1..Len(so.fsas) : so.fsas[i].kind = kind

\* what a call of a set operation leaves behind
Returned(operation, r) ==
    [so EXCEPT !.operation = operation, !.result = r.result, !.same = r.same]

\* NewSetOperation(operation, fsas...).Execute()
CallExecute ==
    \E operation \in SetOperationTypes :
        /\ so.operation = "none"
        /\ OperandsAre("SimpleFSA")
        /\ so' = Returned(operation, SetOperation_Execute(operation, so.fsas))
        /\ UNCHANGED <<builder, fsa, res, hist, iter, out, fz, lru, au, cq, al>>

\* Union(fsas[0], fsas[1:]...)
CallUnion ==
    /\ so.operation = "none"
    /\ OperandsAre("SimpleFSA")
    /\ Len(so.fsas) >= 1
    /\ so' = Returned("Union", Union(Head(so.fsas), Tail(so.fsas)))
    /\ UNCHANGED <<builder, fsa, res, hist, iter, out, fz, lru, au, cq, al>>

\* Intersection(fsas[0], fsas[1:]...)
CallIntersection ==
    /\ so.operation = "none"
    /\ OperandsAre("SimpleFSA")
    /\ Len(so.fsas) >= 1
    /\ so' = Returned("Intersection", Intersection(Head(so.fsas), Tail(so.fsas)))
    /\ UNCHANGED <<builder, fsa, res, hist, iter, out, fz, lru, au, cq, al>>

\* Difference(fsas[0], fsas[1:]...)
CallDifference ==
    /\ so.operation = "none"
    /\ OperandsAre("SimpleFSA")
    /\ Len(so.fsas) >= 1
    /\ so' = Returned("Difference", Difference(Head(so.fsas), Tail(so.fsas)))
    /\ UNCHANGED <<builder, fsa, res, hist, iter, out, fz, lru, au, cq, al>>

\* SymmetricDifference(fsas[0], fsas[1])
CallSymmetricDifference ==
    /\ so.operation = "none"
    /\ OperandsAre("SimpleFSA")
    /\ Len(so.fsas) = 2
    /\ so' = Returned("SymmetricDifference",
                      SymmetricDifference(so.fsas[1], so.fsas[2]))
    /\ UNCHANGED <<builder, fsa, res, hist, iter, out, fz, lru, au, cq, al>>

\* FSTUnion(fsts...)
CallFSTUnion ==
    /\ so.operation = "none"
    /\ OperandsAre("FST")
    /\ LET r == FSTUnion(so.fsas)
       IN  so' = [Returned("FSTUnion", r) EXCEPT !.err = r.err]
    /\ UNCHANGED <<builder, fsa, res, hist, iter, out, fz, lru, au, cq, al>>

\* FSTIntersection(fsts...)
CallFSTIntersection ==
    /\ so.operation = "none"
    /\ OperandsAre("FST")
    /\ LET r == FSTIntersection(so.fsas)
       IN  so' = [Returned("FSTIntersection", r) EXCEPT !.err = r.err]
    /\ UNCHANGED <<builder, fsa, res, hist, iter, out, fz, lru, au, cq, al>>

NextSetOp ==
    \/ CallExecute
    \/ CallUnion
    \/ CallIntersection
    \/ CallDifference
    \/ CallSymmetricDifference
    \/ CallFSTUnion
    \/ CallFSTIntersection

SpecSetOp == InitSetOp /\ [][NextSetOp]_vars

-----------------------------------------------------------------------------
(* Properties of the set operations *)

\* the key set of operand i of the call
OperandKeySet(i) == Range(so.fsas[i].keys)

\* the operands of the call
Operands == 1..Len(so.fsas)

\* the key set of the automaton returned
ResultKeySet == Range(so.result.keys)

\* the reorderings of a list
Reorderings(fs) ==
    {[i \in 1..Len(fs) |-> fs[p[i]]] :
        p \in {q \in [1..Len(fs) -> 1..Len(fs)] : Range(q) = 1..Len(fs)}}

\* C12: Union of A1..An (n >= 1) returns an FSA whose keys are exactly the
\* union of the operands' key sets, each once in ascending order, so that
\* its Len() is the cardinality of that union.
C12_Union ==
    (so.operation \in {"Union", UnionOp} /\ Len(so.fsas) >= 1) =>
        /\ ResultKeySet = UNION {OperandKeySet(i) : i \in Operands}
        /\ StrictlyIncreasing(so.result.keys)
        /\ SimpleFSA_Len(so.result)
               = Cardinality(UNION {OperandKeySet(i) : i \in Operands})

\* a union of three operands, no one of which has all the keys of the result,
\* two of which share a key
C12_Witness ==
    /\ so.operation = "Union"
    /\ Len(so.fsas) = 3
    /\ \A i \in Operands : OperandKeySet(i) # ResultKeySet
    /\ OperandKeySet(1) \cap OperandKeySet(3) # {}
    /\ OperandKeySet(3) \ (OperandKeySet(1) \cup OperandKeySet(2)) # {}

\* C13: Intersection of A1..An (n >= 1) returns an FSA whose keys are exactly
\* the keys of A1 that every other operand has, whether or not the loop left
\* early, and the same keys for every order of the operands.
C13_Intersection ==
    (so.operation \in {"Intersection", IntersectionOp} /\ Len(so.fsas) >= 1) =>
        /\ ResultKeySet = {k \in OperandKeySet(1) :
                              \A i \in Operands : k \in OperandKeySet(i)}
        /\ StrictlyIncreasing(so.result.keys)
        /\ \A fs \in Reorderings(so.fsas) :
               SetOperation_Execute(IntersectionOp, fs).result.keys = so.result.keys

\* an intersection that ran out of candidates at the second of three
\* operands, the third operand sharing a key with the first
C13_Witness ==
    /\ so.operation = "Intersection"
    /\ Len(so.fsas) = 3
    /\ OperandKeySet(1) # {}
    /\ OperandKeySet(1) \cap OperandKeySet(2) = {}
    /\ OperandKeySet(1) \cap OperandKeySet(3) # {}
    /\ ResultKeySet = {}

\* C14: Difference of A1..An (n >= 1) returns an FSA whose keys are exactly
\* the keys of A1 that none of A2..An has.
C14_Difference ==
    (so.operation \in {"Difference", DifferenceOp} /\ Len(so.fsas) >= 1) =>
        /\ ResultKeySet = {k \in OperandKeySet(1) :
                              \A i \in Operands \ {1} : k \notin OperandKeySet(i)}
        /\ StrictlyIncreasing(so.result.keys)

\* a difference of three operands: the second and the third each remove a
\* key of the first that the other does not have, and a key is left
C14_Witness ==
    /\ so.operation = "Difference"
    /\ Len(so.fsas) = 3
    /\ (OperandKeySet(1) \cap OperandKeySet(2)) \ OperandKeySet(3) # {}
    /\ (OperandKeySet(1) \cap OperandKeySet(3)) \ OperandKeySet(2) # {}
    /\ ResultKeySet # {}

\* the number of operands that have key k
Multiplicity(k) == Cardinality({i \in Operands : k \in OperandKeySet(i)})

\* C15: the symmetric difference of two operands has exactly the keys that
\* exactly one of them has; of three or more operands, exactly the keys that
\* an odd number of them has (the left-to-right fold), in ascending order.
C15_SymmetricDifference ==
    (so.operation \in {"SymmetricDifference", SymmetricDifferenceOp}
     /\ Len(so.fsas) >= 2) =>
        /\ ResultKeySet = {k \in OperandKeys : Multiplicity(k) % 2 = 1}
        /\ StrictlyIncreasing(so.result.keys)

\* a symmetric difference of three operands with a key that all three have,
\* a key that two have and a key that one has
C15_Witness ==
    /\ so.operation = SymmetricDifferenceOp
    /\ Len(so.fsas) = 3
    /\ \E k \in OperandKeys : Multiplicity(k) = 3
    /\ \E k \in OperandKeys : Multiplicity(k) = 2
    /\ \E k \in OperandKeys : Multiplicity(k) = 1

\* the operands that have key k
Holders(k) == {i \in Operands : k \in OperandKeySet(i)}

\* the value of key k in the earliest-listed operand that has it
EarliestValue(k) == FST_Get(so.fsas[MinOfSet(Holders(k))], k)[1]

\* C16: FSTUnion and FSTIntersection succeed, and every key of the result
\* has the value it has in the earliest-listed operand that contains it;
\* FSTUnion keeps the keys of all operands and FSTIntersection exactly the
\* keys present in every operand (so with the first operand's values).
C16_EarliestOperandWins ==
    (so.operation \in {"FSTUnion", "FSTIntersection"} /\ Len(so.fsas) >= 1) =>
        /\ so.err = ErrNil
        /\ StrictlyIncreasing(so.result.keys)
        /\ \A k \in ResultKeySet : FST_Get(so.result, k) = <<EarliestValue(k), TRUE>>
        /\ so.operation = "FSTUnion" =>
               ResultKeySet = UNION {OperandKeySet(i) : i \in Operands}
        /\ so.operation = "FSTIntersection" =>
               ResultKeySet = {k \in FSTOperandKeys : Holders(k) = Operands}

\* a union of three FSTs with a key that the first does not have and that
\* the second and the third have with different values
C16_Witness ==
    /\ so.operation = "FSTUnion"
    /\ Len(so.fsas) = 3
    /\ \E k \in ResultKeySet :
           /\ Holders(k) = {2, 3}
           /\ FST_Get(so.fsas[2], k)[1] # FST_Get(so.fsas[3], k)[1]

\* C17: every set operation, for every number of operands, returns a newly
\* built automaton (not the pointer of one of its operands) and leaves its
\* operands as they were.
C17_ResultIsNewObject ==
    [][so'.operation # "none" => (so'.same = 0 /\ so'.fsas = so.fsas)]_vars

-----------------------------------------------------------------------------
(* Properties of value lookup *)

\* Get of the transducer at hand: <<value, found>>
Get(f, key) ==
    IF f.kind = "FST" THEN FST_Get(f, key) ELSE MinimizedFST_Get(f, key)

\* the calls Add(accepted[i], values[i]) from index i on: <<builder, all nil>>
RECURSIVE Replay(_, _)
Replay(b, i) ==
    IF i > Len(hist.accepted) THEN <<b, TRUE>>
    ELSE LET r == Builder_Add(b, hist.accepted[i], hist.values[i])
         IN  IF r[2] # ErrNil THEN <<b, FALSE>> ELSE Replay(r[1], i + 1)

\* C18: after Build of an FSTBuilder or a MinimizingBuilder, Get returns
\* (v, true) for every pair (k, v) that was added and (0, false) for every
\* other byte string; an FST and a MinimizedFST built from the same pairs
\* give the same answer to every lookup.
C18_GetRoundTrip ==
    (res.op = "Build" /\ res.fsa.kind \in {"FST", "MinimizedFST"}) =>
        /\ \A i \in 1..Len(hist.accepted) :
               Get(res.fsa, hist.accepted[i]) = <<hist.values[i], TRUE>>
        /\ \A k \in Probes \ AcceptedKeys : Get(res.fsa, k) = <<0, FALSE>>
        /\ LET fstB == Replay(NewFSTBuilder, 1)
               minB == Replay(NewMinimizingBuilder, 1)
           IN  (fstB[2] /\ minB[2]) =>
                   \A k \in Probes :
                       FST_Get(FSTBuilder_Build(fstB[1]), k)
                           = MinimizedFST_Get(MinimizingBuilder_Build(minB[1]), k)

\* a MinimizedFST of two keys, the first a proper prefix of the second and
\* stored with value 1, the second with value 0
C18_Witness ==
    /\ res.op = "Build"
    /\ res.fsa.kind = "MinimizedFST"
    /\ Len(hist.accepted) = 2
    /\ bytes_HasPrefix(hist.accepted[2], hist.accepted[1])
    /\ hist.values = <<1, 0>>

-----------------------------------------------------------------------------
(* BoundedLRUCache, used by one goroutine.  lru is the cache.  Here res is  *)
(* what the most recent call returned (for Get the state and the flag, for  *)
(* Put the key it evicted, 0 if none) and hist is the history of the calls: *)
(* order, the hashes touched so far from the most to the least recently     *)
(* touched; evicted, the hashes evicted and not Put since; puts, the hashes *)
(* Put so far and plain, whether these are distinct and no Get was called.  *)

\* largest hash
MaxHash == 3
\* largest capacity
MaxCapacity == 2

\* the hashes Put and Get are called with
Hashes == 1..MaxHash
\* the *FrozenState pointers Put is called with (0 is nil)
FrozenStates == {1, 2}

\* NewBoundedLRUCache(capacity)
NewBoundedLRUCache(capacity) == [capacity |-> capacity, cache |-> <<>>, lru |-> <<>>]

\* list.MoveToFront(elem), elem the element that holds key: nothing happens
\* if the element is not in the list
list_MoveToFront(l, key) ==
    LET at == {i \in 1..Len(l) : l[i].key = key}
    IN  IF at = {} THEN l
        ELSE LET i == MinOfSet(at)
             IN  <<l[i]>> \o SubSeq(l, 1, i - 1) \o SubSeq(l, i + 1, Len(l))

\* elem.Value.(*cacheEntry).state = state, for the element that holds key
list_SetState(l, key, state) ==
    [i \in 1..Len(l) |-> IF l[i].key = key THEN [l[i] EXCEPT !.state = state] ELSE l[i]]

\* delete(m, key)
map_Delete(m, key) == [k \in DOMAIN m \ {key} |-> m[k]]

\* m[key] = entry
map_Set(m, key, entry) ==
    [k \in DOMAIN m \cup {key} |-> IF k = key THEN entry ELSE m[k]]

\* BoundedLRUCache.Get without the MoveToFront
BoundedLRUCache_Get_NoMove(c, hash) ==
    IF hash \notin DOMAIN c.cache THEN <<c, 0, FALSE>>
    ELSE <<c, c.cache[hash].state, TRUE>>

\* BoundedLRUCache.Get: <<cache after the call, state, found>>
BoundedLRUCache_Get(c, hash) ==
    IF hash \notin DOMAIN c.cache THEN <<c, 0, FALSE>>
    ELSE <<[c EXCEPT !.lru = list_MoveToFront(@, c.cache[hash].key)],
           c.cache[hash].state, TRUE>>

\* BoundedLRUCache.Put that removes the oldest element from the list but
\* leaves its key in the map
BoundedLRUCache_Put_KeepsMapEntry(c, hash, state) ==
    IF hash \in DOMAIN c.cache
    THEN <<[c EXCEPT !.lru = list_SetState(list_MoveToFront(@, c.cache[hash].key),
                                           c.cache[hash].key, state),
                     !.cache = map_Set(@, hash, [c.cache[hash] EXCEPT !.state = state])],
           0>>
    ELSE LET entry == [key |-> hash, state |-> state]
             pushed == <<entry>> \o c.lru
             cache == map_Set(c.cache, hash, entry)
         IN  IF Len(pushed) > c.capacity /\ pushed # <<>>
             THEN LET oldest == pushed[Len(pushed)]
                  IN  <<[c EXCEPT !.lru = SubSeq(pushed, 1, Len(pushed) - 1),
                                  !.cache = cache],
                        oldest.key>>
             ELSE <<[c EXCEPT !.lru = pushed, !.cache = cache], 0>>

\* BoundedLRUCache.Put: <<cache after the call, key of the entry evicted or 0>>
BoundedLRUCache_Put(c, hash, state) ==
    IF hash \in DOMAIN c.cache
    THEN <<[c EXCEPT !.lru = list_SetState(list_MoveToFront(@, c.cache[hash].key),
                                           c.cache[hash].key, state),
                     !.cache = map_Set(@, hash, [c.cache[hash] EXCEPT !.state = state])],
           0>>
    ELSE LET entry == [key |-> hash, state |-> state]
             pushed == <<entry>> \o c.lru
             cache == map_Set(c.cache, hash, entry)
         IN  IF Len(pushed) > c.capacity /\ pushed # <<>>
             THEN LET oldest == pushed[Len(pushed)]
                  IN  <<[c EXCEPT !.lru = SubSeq(pushed, 1, Len(pushed) - 1),
                                  !.cache = map_Delete(cache, oldest.key)],
                        oldest.key>>
             ELSE <<[c EXCEPT !.lru = pushed, !.cache = cache], 0>>

\* BoundedLRUCache.Size
BoundedLRUCache_Size(c) == Len(c.lru)

\* no call yet
NoTouch == [order |-> <<>>, evicted |-> {}, puts |-> <<>>, plain |-> TRUE]

\* order after a touch of hash
Touch(order, hash) == <<hash>> \o SelectSeq(order, LAMBDA h : h # hash)

InitLRU ==
    /\ lru \in {NewBoundedLRUCache(capacity) : capacity \in 0..MaxCapacity}
    /\ au = NoAu
    /\ cq = NoCq
    /\ al = NoAl
    /\ builder = NewFSABuilder
    /\ fsa = NoFSA
    /\ res = NoRes
    /\ hist = NoTouch
    /\ iter = NoIter
    /\ out = NoOut
    /\ fz = NoFz
    /\ so = NoSo

\* cache.Put(hash, state)
CachePut ==
    \E hash \in Hashes, state \in FrozenStates :
        LET r == BoundedLRUCache_Put(lru, hash, state)
        IN  /\ lru' = r[1]
            /\ res' = [op |-> "Put", hash |-> hash, state |-> 0, found |-> FALSE,
                       evicted |-> r[2]]
            /\ hist' = [order |-> Touch(hist.order, hash),
                        evicted |-> (hist.evicted \ {hash})
                                    \cup (IF r[2] # 0 THEN {r[2]} ELSE {}),
                        puts |-> IF hist.plain /\ hash \notin Range(hist.puts)
                                 THEN Append(hist.puts, hash) ELSE <<>>,
                        plain |-> hist.plain /\ hash \notin Range(hist.puts)]
            /\ UNCHANGED <<builder, fsa, iter, out, fz, so, au, cq, al>>

\* cache.Get(hash)
CacheGet ==
    \E hash \in Hashes :
        LET r == BoundedLRUCache_Get(lru, hash)
        IN  /\ lru' = r[1]
            /\ res' = [op |-> "Get", hash |-> hash, state |-> r[2], found |-> r[3],
                       evicted |-> 0]
            /\ hist' = [hist EXCEPT !.order = IF r[3] THEN Touch(@, hash) ELSE @,
                                    !.puts = <<>>, !.plain = FALSE]
            /\ UNCHANGED <<builder, fsa, iter, out, fz, so, au, cq, al>>

NextLRU == CachePut \/ CacheGet

SpecLRU == InitLRU /\ [][NextLRU]_vars

-----------------------------------------------------------------------------
(* Properties of the cache *)

\* the keys of the elements of the recency list
ListKeys == {lru.lru[i].key : i \in 1..Len(lru.lru)}

\* C19: in every sequence of Put and Get on a cache of capacity C >= 0,
\* Size() <= C after every call, the map and the recency list hold the same
\* keys, the list holds one element per key, and the map leads from each
\* key to the element of that key.
C19_SizeBoundedMapMatchesList ==
    /\ BoundedLRUCache_Size(lru) <= lru.capacity
    /\ DOMAIN lru.cache = ListKeys
    /\ Cardinality(ListKeys) = Len(lru.lru)
    /\ \A i \in 1..Len(lru.lru) : lru.cache[lru.lru[i].key] = lru.lru[i]

\* a Put into a full cache of two or more entries that evicted one
C19_Witness ==
    /\ res.op = "Put"
    /\ res.evicted # 0
    /\ lru.capacity >= 2
    /\ BoundedLRUCache_Size(lru) = lru.capacity

\* the place of hash h in a list of hashes
Pos(order, h) == MinOfSet({i \in 1..Len(order) : order[i] = h})

\* the last n elements of a list
LastN(s, n) == SubSeq(s, Len(s) - n + 1, Len(s))

\* C20: when a Put evicts an entry, every entry that remains was touched
\* (inserted, updated by Put or hit by Get) more recently than the evicted
\* one; after Puts of N > C distinct hashes and no Get exactly the last C
\* of them remain; Get of an evicted hash that was not Put again reports
\* not found.
C20_EvictsLeastRecentlyTouched ==
    [][/\ (res'.op = "Put" /\ res'.evicted # 0) =>
              \A h \in DOMAIN lru'.cache :
                  Pos(hist'.order, h) < Pos(hist'.order, res'.evicted)
       /\ (hist'.plain /\ Len(hist'.puts) > lru'.capacity) =>
              DOMAIN lru'.cache = Range(LastN(hist'.puts, lru'.capacity))
       /\ (res'.op = "Get" /\ res'.hash \in hist.evicted) => ~res'.found]_vars

\* a Put that evicted from a cache of two or more entries, after a Get or
\* a repeated Put, and left behind an entry other than the one it put
C20_Witness ==
    /\ res.op = "Put"
    /\ res.evicted # 0
    /\ lru.capacity >= 2
    /\ ~hist.plain
    /\ \E h \in DOMAIN lru.cache : h # res.hash /\ h < res.evicted

-----------------------------------------------------------------------------
(* Reset of a SimpleFSABuilder *)

\* C28: SimpleFSABuilder.Reset returns the builder to its initial state:
\* right after Reset, Len() is 0, every non-empty key is accepted by Add
\* (also one not greater than a key added before the Reset), and a Build
\* yields no key; from then on a Build yields exactly the keys added after
\* the Reset.
C28_ResetForgets ==
    /\ [][(res'.op = "Reset") =>
            /\ SimpleFSABuilder_Len(builder') = 0
            /\ \A key \in AllStrs \ {<<>>} :
                   /\ SimpleFSABuilder_Add(builder', key)[2] = ErrNil
                   /\ SimpleFSABuilder_Build(
                          SimpleFSABuilder_Add(builder', key)[1]).keys = <<key>>
            /\ SimpleFSABuilder_Build(builder').keys = <<>>]_vars
    /\ [](builder.kind = "SimpleFSABuilder" =>
              SimpleFSABuilder_Build(builder).keys = hist.accepted)

\* a Reset of a builder whose last key had the greatest length
C28_Witness ==
    /\ res.op = "Reset"
    /\ Len(res.key) = MaxLen
    /\ SimpleFSABuilder_Len(builder) = 0

-----------------------------------------------------------------------------
(* Fuzzy search and exact membership *)

\* C23: FuzzySearch is total: for every FSA (the empty one included), every
\* pattern (the empty one included) and every integer maxDistance,
\* NewLevenshteinAutomaton, Step, IsMatch, CanMatch and FuzzySearch complete
\* without a panic.
C23_FuzzySearchTotal == ~fz.panic

-----------------------------------------------------------------------------
(* Fuzzy search over the words of TestLevenshteinAutomaton, as bytes *)

car == <<99, 97, 114>>
card == <<99, 97, 114, 100>>
care == <<99, 97, 114, 101>>
careful == <<99, 97, 114, 101, 102, 117, 108>>
cat == <<99, 97, 116>>
dog == <<100, 111, 103>>
dogs == <<100, 111, 103, 115>>

\* the words of the test
TestWords == {car, card, care, careful, cat, dog, dogs}

\* the keys of a set in the order a sorted word list has them
RECURSIVE SortedWords(_)
SortedWords(S) ==
    IF S = {} THEN <<>>
    ELSE LET w == CHOOSE x \in S : \A y \in S : bytes_Compare(x, y) <= 0
         IN  <<w>> \o SortedWords(S \ {w})

\* builder.Add of each word of a sorted list, from word i on
RECURSIVE AddWords(_, _, _)
AddWords(b, words, i) ==
    IF i > Len(words) THEN b
    ELSE AddWords(SimpleFSABuilder_Add(b, words[i])[1], words, i + 1)

\* an automaton built from some of the words
InitWords ==
    /\ \E S \in SUBSET TestWords :
           fsa = SimpleFSABuilder_Build(AddWords(NewFSABuilder, SortedWords(S), 1))
    /\ builder = NewFSABuilder
    /\ res = NoRes
    /\ hist = NoHist
    /\ iter = NoIter
    /\ out = NoOut
    /\ fz = NoFz
    /\ so = NoSo
    /\ lru = NoLru
    /\ au = NoAu
    /\ cq = NoCq
    /\ al = NoAl

\* FuzzySearch(fsa, word, maxDistance)
CallFuzzySearchWord ==
    \E pattern \in {car, cat, dog}, maxDistance \in 0..MaxDist :
        /\ ~fz.done
        /\ fz' = [pattern |-> pattern, maxDistance |-> maxDistance,
                  done |-> TRUE, panic |-> FALSE,
                  results |-> FuzzySearch(fsa, pattern, maxDistance)]
        /\ UNCHANGED <<builder, fsa, res, hist, iter, out, so, lru, au, cq, al>>

NextWords == CallFuzzySearchWord

SpecWords == InitWords /\ [][NextWords]_vars

\* C27: FuzzySearch(fsa, "car", 1) over an automaton whose keys include car,
\* card, care and cat returns exactly ["car", "cat"].
C27_CarWithinOne ==
    (/\ fz.done
     /\ fz.pattern = car
     /\ fz.maxDistance = 1
     /\ {car, card, care, cat} \subseteq KeySet) =>
        fz.results = <<car, cat>>

-----------------------------------------------------------------------------
(* Automaton: States is the slice of states (the state with ID i is at     *)
(* index i of the slice, element i + 1 here), each with its IsFinal flag   *)
(* flag, its Output and its Transitions in the order sort.Slice leaves     *)
(* them in; a transition is its Label, Target and Output.                  *)

\* NewAutomaton
NewAutomaton == [States |-> <<>>, StartState |-> 0, NumStates |-> 0]

\* Automaton.AddState: <<automaton after the call, stateID>>
Automaton_AddState(a, isFinal, output) ==
    <<[a EXCEPT !.States = Append(@, [ID |-> a.NumStates, IsFinal |-> isFinal,
                                      Output |-> output, Transitions |-> <<>>]),
                !.NumStates = @ + 1],
      a.NumStates>>

\* sort.Slice by Label of the transitions with one appended: the slices
\* here are short enough for sort.Slice to sort by insertion, so the new
\* transition comes after the ones that have its label already
RECURSIVE sortByLabel(_, _)
sortByLabel(sorted, t) ==
    IF sorted = <<>> THEN <<t>>
    ELSE IF t.Label < Head(sorted).Label THEN <<t>> \o sorted
    ELSE <<Head(sorted)>> \o sortByLabel(Tail(sorted), t)

\* Automaton.AddTransition: whether the call panics ("invalid from state")
Automaton_AddTransition_Panics(a, fromState) == fromState >= a.NumStates

\* Automaton.AddTransition on a state of the automaton
Automaton_AddTransition(a, fromState, label, toState, output) ==
    [a EXCEPT !.States[fromState + 1].Transitions =
                  sortByLabel(@, [Label |-> label, Target |-> toState,
                                  Output |-> output])]

\* sort.Search over the transitions: the smallest i with Label >= label
RECURSIVE transitionSearch(_, _, _, _)
transitionSearch(transitions, label, i, j) ==
    IF i < j
    THEN LET h == (i + j) \div 2
         IN  IF ~(transitions[h + 1].Label >= label)
             THEN transitionSearch(transitions, label, h + 1, j)
             ELSE transitionSearch(transitions, label, i, h)
    ELSE i

\* no transition
NilTransition == [isNil |-> TRUE, Label |-> 0, Target |-> 0, Output |-> 0]

\* Automaton.FindTransition
Automaton_FindTransition(a, stateID, label) ==
    IF stateID >= a.NumStates THEN NilTransition
    ELSE LET transitions == a.States[stateID + 1].Transitions
             i == transitionSearch(transitions, label, 0, Len(transitions))
         IN  IF i < Len(transitions) /\ transitions[i + 1].Label = label
             THEN [isNil |-> FALSE, Label |-> label,
                   Target |-> transitions[i + 1].Target,
                   Output |-> transitions[i + 1].Output]
             ELSE NilTransition

\* the loop of Accept from byte i of the input on, and its last two lines
RECURSIVE acceptLoop(_, _, _, _)
acceptLoop(a, input, i, currentState) ==
    IF i > Len(input)
    THEN currentState < a.NumStates /\ a.States[currentState + 1].IsFinal
    ELSE LET transition == Automaton_FindTransition(a, currentState, input[i])
         IN  IF transition.isNil THEN FALSE
             ELSE acceptLoop(a, input, i + 1, transition.Target)

\* the loop of AcceptWithOutput from byte i of the input on, and the lines
\* after it: <<accepted, output>>
RECURSIVE acceptWithOutputLoop(_, _, _, _, _)
acceptWithOutputLoop(a, input, i, currentState, totalOutput) ==
    IF i > Len(input)
    THEN IF ~(currentState < a.NumStates) \/ ~a.States[currentState + 1].IsFinal
         THEN <<FALSE, 0>>
         ELSE <<TRUE, totalOutput + a.States[currentState + 1].Output>>
    ELSE LET transition == Automaton_FindTransition(a, currentState, input[i])
         IN  IF transition.isNil THEN <<FALSE, 0>>
             ELSE acceptWithOutputLoop(a, input, i + 1, transition.Target,
                                       totalOutput + transition.Output)

\* Automaton.AcceptWithOutput (the outputs here never add up to 2^64)
Automaton_AcceptWithOutput(a, input) ==
    acceptWithOutputLoop(a, input, 1, a.StartState, 0)

\* Automaton.Accept that does not look at IsFinal
Automaton_Accept_AnyState(a, input) ==
    \E s \in 0..(a.NumStates - 1) :
        acceptLoop([a EXCEPT !.States[s + 1].IsFinal = TRUE], input, 1, a.StartState)

\* Automaton.Accept
Automaton_Accept(a, input) == acceptLoop(a, input, 1, a.StartState)

RECURSIVE buildRecursive(_, _, _, _)
RECURSIVE buildGroups(_, _, _, _, _)

\* the range loop of buildRecursive over the groups whose first byte is in
\* chars: the map is ranged over in any order, so the outcome is a set of
\* automata that differ in how the states are numbered
buildGroups(a, keys, depth, stateID, chars) ==
    IF chars = {} THEN {a}
    ELSE UNION {
           LET group == SelectSeq(keys, LAMBDA key : depth < Len(key) /\ key[depth + 1] = char)
               filteredGroup == SelectSeq(group, LAMBDA key : depth + 1 < Len(key))
               hasTerminatingKey == \E i \in 1..Len(group) : depth + 1 = Len(group[i])
               added == Automaton_AddState(a, FALSE, 0)
               targetState == added[2]
               linked == Automaton_AddTransition(added[1], stateID, char, targetState, 0)
               marked == IF hasTerminatingKey
                         THEN [linked EXCEPT !.States[targetState + 1].IsFinal = TRUE]
                         ELSE linked
               below == IF Len(filteredGroup) > 0
                        THEN buildRecursive(marked, filteredGroup, depth + 1, targetState)
                        ELSE {marked}
           IN  UNION {buildGroups(b, keys, depth, stateID, chars \ {char}) : b \in below}
           : char \in chars}

\* AutomatonBuilder.buildRecursive: the automata it can leave behind
buildRecursive(a, keys, depth, stateID) ==
    LET hasEmptyKey == \E i \in 1..Len(keys) : depth >= Len(keys[i])
        chars == {keys[i][depth + 1] : i \in {j \in 1..Len(keys) : depth < Len(keys[j])}}
        marked == IF hasEmptyKey
                  THEN [a EXCEPT !.States[stateID + 1].IsFinal = TRUE]
                  ELSE a
    IN  buildGroups(marked, keys, depth, stateID, chars)

\* AutomatonBuilder.BuildFromStrings: the automata it can return
BuildFromStrings(keys) ==
    LET added == Automaton_AddState(NewAutomaton, FALSE, 0)
    IN  IF Len(keys) = 0 THEN {added[1]}
        ELSE buildRecursive([added[1] EXCEPT !.StartState = added[2]], keys, 0, added[2])

-----------------------------------------------------------------------------
(* MinimizeAutomaton *)

\* string(rune(x)) as a code point: the surrogates and everything above
\* U+10FFFF (a uint32 above the int32 range included) become U+FFFD
runeString(x) ==
    IF (x >= 55296 /\ x <= 57343) \/ x > 1114111 THEN 65533 ELSE x

\* the signature of a state: "F" or "N", then label and target of each
\* transition, as the code points of the string
RECURSIVE transitionSignature(_)
transitionSignature(transitions) ==
    IF transitions = <<>> THEN <<>>
    ELSE <<Head(transitions).Label, runeString(Head(transitions).Target)>>
         \o transitionSignature(Tail(transitions))

signature(state) ==
    (IF state.IsFinal THEN <<70>> ELSE <<78>>) \o transitionSignature(state.Transitions)

\* stateGroups: the states (as indices) that share a signature
stateGroups(a) ==
    {{j \in 0..(Len(a.States) - 1) : signature(a.States[j + 1]) = signature(a.States[i + 1])}
        : i \in 0..(Len(a.States) - 1)}

\* the orders in which a range loop can visit the elements of S
RECURSIVE rangeOrders(_)
rangeOrders(S) ==
    IF S = {} THEN {<<>>}
    ELSE UNION {{<<x>> \o o : o \in rangeOrders(S \ {x})} : x \in S}

\* the minimized automaton when the groups are visited in this order
minimizedInOrder(a, order) ==
    LET stateMapping == [old \in 0..(Len(a.States) - 1) |->
                            (CHOOSE n \in 1..Len(order) : old \in order[n]) - 1]
        remap(transitions) ==
            [j \in 1..Len(transitions) |->
                [transitions[j] EXCEPT !.Target =
                    IF @ \in DOMAIN stateMapping THEN stateMapping[@] ELSE @]]
        newStates == [n \in 1..Len(order) |->
                        LET oldState == a.States[MinOfSet(order[n]) + 1]
                        IN  [ID |-> n - 1, IsFinal |-> oldState.IsFinal,
                             Output |-> oldState.Output,
                             Transitions |-> remap(oldState.Transitions)]]
    IN  [States |-> newStates, StartState |-> stateMapping[a.StartState],
         NumStates |-> Len(newStates)]

\* MinimizeAutomaton: the automata it can return
MinimizeAutomaton(a) ==
    IF Len(a.States) <= 1 THEN {a}
    ELSE IF Cardinality(stateGroups(a)) = Len(a.States) THEN {a}
    ELSE {minimizedInOrder(a, order) : order \in rangeOrders(stateGroups(a))}

-----------------------------------------------------------------------------
(* One AutomatonBuilder: BuildFromStrings, then MinimizeAutomaton on what  *)
(* is at hand.                                                             *)

\* the most keys BuildFromStrings is given
MaxTrieKeys == 2

\* the keys BuildFromStrings is given: sorted lists of distinct non-empty keys
TrieKeys == Strs(2) \ {<<>>}
TrieKeyLists ==
    {SortedWords(S) : S \in {T \in SUBSET TrieKeys : Cardinality(T) <= MaxTrieKeys}}

InitAutomaton ==
    /\ builder = NewFSABuilder
    /\ fsa = NoFSA
    /\ res = NoRes
    /\ hist = NoHist
    /\ iter = NoIter
    /\ out = NoOut
    /\ fz = NoFz
    /\ so = NoSo
    /\ lru = NoLru
    /\ au = NoAu
    /\ cq = NoCq
    /\ al = NoAl

\* NewAutomatonBuilder().BuildFromStrings(keys)
CallBuildFromStrings ==
    /\ au.op = "none"
    /\ \E keys \in TrieKeyLists :
           \E a \in BuildFromStrings(keys) :
               au' = [keys |-> keys, automaton |-> a, before |-> a,
                      op |-> "BuildFromStrings", minimized |-> 0]
    /\ UNCHANGED <<builder, fsa, res, hist, iter, out, fz, so, lru, cq, al>>

\* automaton = MinimizeAutomaton(automaton), at most twice in a row
CallMinimizeAutomaton ==
    /\ au.op # "none"
    /\ au.minimized \in {0, 1}
    /\ \E m \in MinimizeAutomaton(au.automaton) :
           au' = [au EXCEPT !.automaton = m, !.before = au.automaton,
                            !.op = "MinimizeAutomaton", !.minimized = @ + 1]
    /\ UNCHANGED <<builder, fsa, res, hist, iter, out, fz, so, lru, cq, al>>

NextAutomaton == CallBuildFromStrings \/ CallMinimizeAutomaton

SpecAutomaton == InitAutomaton /\ [][NextAutomaton]_vars

\* C25: for a sorted set K of non-empty keys and every byte string w (the
\* empty string, the prefixes and the extensions of keys included),
\* BuildFromStrings(K).Accept(w) = SimpleFSA(K).Contains(w) = (w in K).
C25_AcceptIsMembership ==
    au.op = "BuildFromStrings" =>
        \A w \in Probes :
            /\ Automaton_Accept(au.automaton, w) <=> (w \in Range(au.keys))
            /\ SimpleFSA_Contains(NewSimpleFSA(au.keys), w) <=> (w \in Range(au.keys))

\* an automaton built from a key and an extension of it
C25_Witness ==
    /\ au.op = "BuildFromStrings"
    /\ Len(au.keys) = 2
    /\ hasPrefix(au.keys[2], au.keys[1])
    /\ Automaton_Accept(au.automaton, au.keys[1])
    /\ ~Automaton_Accept(au.automaton, <<>>)

\* the suffixes an automaton accepts from a state
Suffixes(a, state) == {w \in Probes : acceptLoop(a, w, 1, state)}

\* C30: the automaton MinimizeAutomaton returns has no two distinct states
\* with the same recursive signature (the same accepted suffixes), and
\* MinimizeAutomaton applied to it again removes no further state.
C30_MinimizedIsMinimal ==
    (au.op = "MinimizeAutomaton" /\ au.minimized = 1) =>
        /\ \A s, t \in 0..(au.automaton.NumStates - 1) :
               s # t => Suffixes(au.automaton, s) # Suffixes(au.automaton, t)
        /\ \A m \in MinimizeAutomaton(au.automaton) :
               m.NumStates = au.automaton.NumStates

-----------------------------------------------------------------------------
(* Regular expressions.  A pattern is a string of bytes; regexp.Compile   *)
(* and MatchString are modelled for the patterns made of literal bytes,   *)
(* '.', a '*' after either, '^' in front, '$' at the end, and '('.        *)

ErrRegexp == "error parsing regexp"

\* the atoms of a pattern body from byte i on: a literal or '.', each
\* possibly starred; "error" for a '*' with nothing to repeat and for a
\* '(' (which nothing closes)
RECURSIVE regexp_parse(_, _)
regexp_parse(body, i) ==
    IF i > Len(body) THEN [err |-> ErrNil, atoms |-> <<>>]
    ELSE IF body[i] = 42 \/ body[i] = 40 THEN [err |-> ErrRegexp, atoms |-> <<>>]
    ELSE LET star == i + 1 <= Len(body) /\ body[i + 1] = 42
             rest == regexp_parse(body, IF star THEN i + 2 ELSE i + 1)
         IN  IF rest.err # ErrNil THEN rest
             ELSE [err |-> ErrNil,
                   atoms |-> <<[any |-> body[i] = 46, byte |-> body[i], star |-> star]>>
                             \o rest.atoms]

\* regexp.Compile: the error, or the compiled expression
regexp_Compile(pattern) ==
    LET atStart == Len(pattern) > 0 /\ pattern[1] = 94
        rest == IF atStart THEN Tail(pattern) ELSE pattern
        atEnd == Len(rest) > 0 /\ rest[Len(rest)] = 36
        body == IF atEnd THEN SubSeq(rest, 1, Len(rest) - 1) ELSE rest
        parsed == regexp_parse(body, 1)
    IN  [err |-> parsed.err, atStart |-> atStart, atEnd |-> atEnd,
         atoms |-> parsed.atoms]

\* whether atoms k.. match s from position pos (to its end if atEnd)
RECURSIVE regexp_matchHere(_, _, _, _)
regexp_matchHere(re, k, s, pos) ==
    IF k > Len(re.atoms) THEN ~re.atEnd \/ pos > Len(s)
    ELSE LET atom == re.atoms[k]
             fits == pos <= Len(s) /\ (atom.any \/ s[pos] = atom.byte)
         IN  IF atom.star
             THEN \/ regexp_matchHere(re, k + 1, s, pos)
                  \/ fits /\ regexp_matchHere(re, k, s, pos + 1)
             ELSE fits /\ regexp_matchHere(re, k + 1, s, pos + 1)

\* Regexp.MatchString: whether s contains a match
regexp_MatchString(re, s) ==
    \E pos \in (IF re.atStart THEN {1} ELSE 1..(Len(s) + 1)) :
        regexp_matchHere(re, 1, s, pos)

\* NewRegexMatcher that hands back a matcher for every pattern
NewRegexMatcher_NoError(pattern) ==
    [isNil |-> FALSE, pattern |-> regexp_Compile(pattern), err |-> ErrNil]

\* NewRegexMatcher: the matcher (nil on error) and the error
NewRegexMatcher(pattern) ==
    LET re == regexp_Compile(pattern)
    IN  IF re.err # ErrNil THEN [isNil |-> TRUE, pattern |-> re, err |-> re.err]
        ELSE [isNil |-> FALSE, pattern |-> re, err |-> ErrNil]

\* what a query returns: for RegexSearch and PrefixRegexSearch the slice and
\* the error, for Execute the QueryResult (nil or Keys and Count) and the error
QueryReturn(isNil, keys, err) ==
    [isNil |-> isNil, Keys |-> keys, Count |-> Len(keys), err |-> err]

\* the keys of an iteration that match
matching(matcher, keys) ==
    SelectSeq(keys, LAMBDA key : regexp_MatchString(matcher.pattern, key))

\* RegexSearch
RegexSearch(f, pattern) ==
    LET matcher == NewRegexMatcher(pattern)
    IN  IF matcher.err # ErrNil THEN QueryReturn(TRUE, <<>>, matcher.err)
        ELSE LET results == matching(matcher, iterKeys(f, SimpleFSA_Iterator(f)))
             IN  QueryReturn(results = <<>>, results, ErrNil)

\* PrefixRegexSearch
PrefixRegexSearch(f, prefix, pattern) ==
    LET matcher == NewRegexMatcher(pattern)
    IN  IF matcher.err # ErrNil THEN QueryReturn(TRUE, <<>>, matcher.err)
        ELSE LET results ==
                     matching(matcher,
                              iterKeys(f, SimpleFSA_PrefixIterator(f, Slice(prefix))))
             IN  QueryReturn(results = <<>>, results, ErrNil)

-----------------------------------------------------------------------------
(* ComplexQuery *)

\* Execute, the key-space restriction: the candidates
candidatesOf(f, options) ==
    IF options.Prefix # <<>>
    THEN iterKeys(f, SimpleFSA_PrefixIterator(f, Slice(options.Prefix)))
    ELSE IF options.StartKey # <<>> \/ options.EndKey # <<>>
    THEN iterKeys(f, SimpleFSA_RangeIterator(f, Slice(options.StartKey),
                                             Slice(options.EndKey)))
    ELSE iterKeys(f, SimpleFSA_Iterator(f))

\* Execute, the fuzzy filter: the fuzzy results that are candidates
fuzzyFilter(f, options, candidates) ==
    IF options.FuzzyPattern # <<>>
    THEN SelectSeq(FuzzySearch(f, options.FuzzyPattern, options.FuzzyMaxDistance),
                   LAMBDA fuzzyResult : fuzzyResult \in Range(candidates))
    ELSE candidates

\* Execute, the limit left out
applyLimit_Unlimited(options, candidates) == candidates

\* Execute, the limit
applyLimit(options, candidates) ==
    IF options.Limit > 0 /\ Len(candidates) > options.Limit
    THEN SubSeq(candidates, 1, options.Limit)
    ELSE candidates

\* ComplexQuery.Execute
ComplexQuery_Execute(f, options) ==
    LET candidates == candidatesOf(f, options)
        matcher == NewRegexMatcher(options.RegexPattern)
    IN  IF options.RegexPattern # <<>> /\ matcher.err # ErrNil
        THEN QueryReturn(TRUE, <<>>, matcher.err)
        ELSE LET filtered == IF options.RegexPattern # <<>>
                             THEN matching(matcher, candidates)
                             ELSE candidates
             IN  QueryReturn(FALSE,
                             applyLimit(options, fuzzyFilter(f, options, filtered)),
                             ErrNil)

\* the greatest Limit of a query
MaxLimit == 1

\* the patterns of the regex searches: "", "1", "^1", "2$", "1.*2", "^.2*$",
\* and the two that do not compile, "(" and "*"
Patterns ==
    {<<>>, <<1>>, <<94, 1>>, <<2, 36>>, <<1, 46, 42, 2>>, <<94, 46, 2, 42, 36>>,
     <<40>>, <<42>>}

\* the options of the queries: the prefixes, the restrictions (Prefix,
\* StartKey, EndKey; one with a prefix and a range at once), the patterns,
\* and a distance only where there is a fuzzy pattern
QueryPrefixes == {<<>>, <<1>>}
QueryRestrictions ==
    {<< <<>>, <<>>, <<>> >>, << <<1>>, <<>>, <<>> >>, << <<1>>, <<1, 2>>, <<2>> >>,
     << <<>>, <<1>>, <<>> >>, << <<>>, <<>>, <<2>> >>, << <<>>, <<1, 2>>, <<2>> >>}
QueryRegexes == {<<>>, <<94, 1>>, <<1, 46, 42, 2>>, <<40>>}
QueryFuzzyPatterns == {<<>>, <<1>>, <<1, 2>>}
AllQueryOptions ==
    {[Prefix |-> r[1], StartKey |-> r[2], EndKey |-> r[3], RegexPattern |-> x,
      FuzzyPattern |-> z[1], FuzzyMaxDistance |-> z[2], Limit |-> l] :
        r \in QueryRestrictions, x \in QueryRegexes,
        z \in {y \in QueryFuzzyPatterns \X (0..MaxDist) : y[1] = <<>> => y[2] = 0},
        l \in 0..MaxLimit}

InitQuery ==
    /\ fsa \in FSAOperands
    /\ builder = NewFSABuilder
    /\ res = NoRes
    /\ hist = NoHist
    /\ iter = NoIter
    /\ out = NoOut
    /\ fz = NoFz
    /\ so = NoSo
    /\ lru = NoLru
    /\ au = NoAu
    /\ cq = NoCq
    /\ al = NoAl

\* a query is made first, or right after a first query that failed
MayQuery == cq.op = "none" \/ (cq.err # ErrNil /\ ~cq.afterFailure)

\* what the call leaves in cq
Queried(op, prefix, pattern, options, r) ==
    [op |-> op, prefix |-> prefix, pattern |-> pattern, options |-> options,
     isNil |-> r.isNil, Keys |-> r.Keys, Count |-> r.Count, err |-> r.err,
     afterFailure |-> cq.err # ErrNil]

\* RegexSearch(fsa, pattern)
CallRegexSearch ==
    /\ MayQuery
    /\ \E pattern \in Patterns :
           cq' = Queried("RegexSearch", <<>>, pattern, NoQueryOptions,
                         RegexSearch(fsa, pattern))
    /\ UNCHANGED <<builder, fsa, res, hist, iter, out, fz, so, lru, au, al>>

\* PrefixRegexSearch(fsa, prefix, pattern)
CallPrefixRegexSearch ==
    /\ MayQuery
    /\ \E prefix \in QueryPrefixes, pattern \in Patterns :
           cq' = Queried("PrefixRegexSearch", prefix, pattern, NoQueryOptions,
                         PrefixRegexSearch(fsa, prefix, pattern))
    /\ UNCHANGED <<builder, fsa, res, hist, iter, out, fz, so, lru, au, al>>

\* NewComplexQuery(fsa).Execute(options)
CallQueryExecute ==
    /\ MayQuery
    /\ \E options \in AllQueryOptions :
           cq' = Queried("Execute", <<>>, options.RegexPattern, options,
                         ComplexQuery_Execute(fsa, options))
    /\ UNCHANGED <<builder, fsa, res, hist, iter, out, fz, so, lru, au, al>>

NextQuery == CallRegexSearch \/ CallPrefixRegexSearch \/ CallQueryExecute

SpecQuery == InitQuery /\ [][NextQuery]_vars

\* whether key matches the pattern, by the standard library
Matches(pattern, key) == regexp_MatchString(regexp_Compile(pattern), key)

\* the keys of the automaton that pass the three filters of the options
Passing(options) ==
    LET restricted ==
            IF options.Prefix # <<>>
            THEN {k \in KeySet : hasPrefix(k, options.Prefix)}
            ELSE IF options.StartKey # <<>> \/ options.EndKey # <<>>
            THEN {k \in KeySet : /\ bytes_Compare(options.StartKey, k) <= 0
                                 /\ bytes_Compare(k, options.EndKey) < 0}
            ELSE KeySet
    IN  {k \in restricted :
            /\ options.RegexPattern # <<>> => Matches(options.RegexPattern, k)
            /\ options.FuzzyPattern # <<>> =>
                   k \in Range(FuzzySearch(fsa, options.FuzzyPattern,
                                           options.FuzzyMaxDistance))}

\* the first limit elements of the set in ascending order, all for limit 0
FirstAscending(S, limit) ==
    IF limit = 0 \/ Cardinality(S) <= limit THEN SortedWords(S)
    ELSE SubSeq(SortedWords(S), 1, limit)

\* C21: ComplexQuery.Execute returns, in ascending order, the first Limit
\* keys (all when Limit = 0) of the keys that lie in the key-space
\* restriction (the prefix block if Prefix is non-empty, otherwise the range
\* [StartKey, EndKey) if either bound is non-empty, otherwise all keys),
\* match RegexPattern if it is set and belong to the fuzzy search result if
\* FuzzyPattern is set; Count equals len(Keys).
C21_ExecuteFilters ==
    (cq.op = "Execute" /\ cq.err = ErrNil) =>
        /\ ~cq.isNil
        /\ cq.Keys = FirstAscending(Passing(cq.options), cq.options.Limit)
        /\ cq.Count = Len(cq.Keys)

\* a query with a prefix, a regex and a fuzzy pattern whose limit cut a key off
C21_Witness ==
    /\ cq.op = "Execute"
    /\ cq.err = ErrNil
    /\ cq.options.Prefix # <<>>
    /\ cq.options.RegexPattern # <<>>
    /\ cq.options.FuzzyPattern # <<>>
    /\ cq.options.Limit = 1
    /\ Len(cq.Keys) = 1
    /\ Cardinality(Passing(cq.options)) > 1

\* C22: a regex that fails to compile aborts only that query: RegexSearch,
\* PrefixRegexSearch and Execute return an error and no result, the keys of
\* the automaton stay as they were, and a query made after the failed one
\* returns what it returns on an automaton that was never queried.
C22_FailedRegexAbortsOnlyThatQuery ==
    /\ [][fsa' = fsa]_vars
    /\ [](( /\ cq.op # "none"
            /\ cq.op = "Execute" => cq.pattern # <<>>
            /\ regexp_Compile(cq.pattern).err # ErrNil) =>
               (cq.err # ErrNil /\ cq.isNil /\ cq.Keys = <<>>))
    /\ [](( /\ cq.afterFailure
            /\ regexp_Compile(cq.pattern).err = ErrNil) =>
               /\ cq.err = ErrNil
               /\ cq.op = "RegexSearch" =>
                      cq.Keys = SortedWords({k \in KeySet : Matches(cq.pattern, k)})
               /\ cq.op = "PrefixRegexSearch" =>
                      cq.Keys = SortedWords({k \in KeySet : /\ hasPrefix(k, cq.prefix)
                                                            /\ Matches(cq.pattern, k)})
               /\ cq.op = "Execute" =>
                      cq.Keys = FirstAscending(Passing(cq.options), cq.options.Limit))

\* a regex search that returned keys right after an Execute whose pattern
\* did not compile
C22_Witness ==
    /\ cq.afterFailure
    /\ cq.op = "RegexSearch"
    /\ cq.err = ErrNil
    /\ Len(cq.Keys) > 0

-----------------------------------------------------------------------------
(* Storage.  The builders, the automata and the caller hold slices and     *)
(* strings that point into arrays; whether a write through one of them is  *)
(* seen through another depends on which arrays they share.  The heap is a *)
(* sequence of arrays, an address is an index into it, 0 is nil.  An array *)
(* is "bytes" (the array of a []byte), "string" (the bytes of a string,    *)
(* which nothing can write), "slices" (the array of a [][]byte, each       *)
(* element the address of a bytes array that the element spans whole),     *)
(* "strings" (the array of a []string, each element the address of a       *)
(* string, 0 for "") or "uint64s".  A slice is the address of its array    *)
(* and its length; its capacity is the length of the array.                *)

NilHeader == [arr |-> 0, len |-> 0]

\* an allocation: <<heap after it, address>>
alloc(h, kind, data) == <<Append(h, [kind |-> kind, data |-> data]), Len(h) + 1>>

\* the capacity of a slice
cap(h, s) == IF s.arr = 0 THEN 0 ELSE Len(h[s.arr].data)

\* append(s, x) for one element: <<heap, slice>>.  With room left the
\* element is written into the array the slice has; without, a new array
\* of twice the capacity (1 after 0) gets the elements and x
append(h, kind, s, x) ==
    IF s.len < cap(h, s)
    THEN <<[h EXCEPT ![s.arr].data[s.len + 1] = x], [s EXCEPT !.len = @ + 1]>>
    ELSE LET newcap == IF cap(h, s) = 0 THEN 1 ELSE 2 * cap(h, s)
             data == [i \in 1..newcap |->
                         IF i <= s.len THEN h[s.arr].data[i]
                         ELSE IF i = s.len + 1 THEN x ELSE 0]
             a == alloc(h, kind, data)
         IN  <<a[1], [arr |-> a[2], len |-> s.len + 1]>>

\* the bytes at an address ("" at 0)
bytesAt(h, a) == IF a = 0 THEN <<>> ELSE h[a].data

\* the byte strings and the numbers a slice holds
keysOf(h, s) == [i \in 1..s.len |-> bytesAt(h, h[s.arr].data[i])]
valuesOf(h, s) == [i \in 1..s.len |-> h[s.arr].data[i]]

\* NewFSABuilder and NewFSTBuilder, with make(..., 0) slices
NewFSABuilder_Mem ==
    [kind |-> "SimpleFSABuilder", keys |-> NilHeader, values |-> NilHeader, lastKey |-> 0]
NewFSTBuilder_Mem ==
    [kind |-> "FSTBuilder", keys |-> NilHeader, values |-> NilHeader, lastKey |-> 0]

\* SimpleFSABuilder.Add of the caller's slice at address key:
\* <<heap, builder, error>>
SimpleFSABuilder_Add_Mem(h, b, key) ==
    LET content == bytesAt(h, key)
        err == IF Len(content) = 0 THEN ErrEmptyKey
               ELSE IF b.lastKey # 0 /\ bytes_Compare(content, bytesAt(h, b.lastKey)) <= 0
                    THEN IF content = bytesAt(h, b.lastKey)
                         THEN ErrDuplicateKey ELSE ErrUnorderedKey
                    ELSE ErrNil
        keyCopy == alloc(h, "bytes", content)
        appended == append(keyCopy[1], "slices", b.keys, keyCopy[2])
        lastKey == alloc(appended[1], "bytes", content)
    IN  IF err # ErrNil THEN <<h, b, err>>
        ELSE <<lastKey[1], [b EXCEPT !.keys = appended[2], !.lastKey = lastKey[2]],
               ErrNil>>

\* the loop of NewSimpleFSA that copies key i and the following ones into
\* the array at keysCopy
RECURSIVE copyKeys(_, _, _, _)
copyKeys(h, keys, keysCopy, i) ==
    IF i > keys.len THEN h
    ELSE LET c == alloc(h, "bytes", bytesAt(h, h[keys.arr].data[i]))
         IN  copyKeys([c[1] EXCEPT ![keysCopy].data[i] = c[2]], keys, keysCopy, i + 1)

\* sort.Slice over the array of keysCopy: the addresses in the order of
\* what they point to (insertion sort)
RECURSIVE sortAddresses(_, _)
sortAddresses(h, addrs) ==
    IF addrs = <<>> THEN <<>>
    ELSE LET sorted == sortAddresses(h, SubSeq(addrs, 1, Len(addrs) - 1))
             x == addrs[Len(addrs)]
             before == {i \in 1..Len(sorted) :
                           bytes_Compare(bytesAt(h, sorted[i]), bytesAt(h, x)) <= 0}
             n == Cardinality(before)
         IN  SubSeq(sorted, 1, n) \o <<x>> \o SubSeq(sorted, n + 1, Len(sorted))

\* NewSimpleFSA that keeps the slice it is given
NewSimpleFSA_Mem_Shared(h, keys) ==
    <<h, [kind |-> "SimpleFSA", keys |-> keys, values |-> NilHeader]>>

\* NewSimpleFSA: <<heap, automaton>>
NewSimpleFSA_Mem(h, keys) ==
    IF keys.len = 0
    THEN <<h, [kind |-> "SimpleFSA", keys |-> NilHeader, values |-> NilHeader]>>
    ELSE LET made == alloc(h, "slices", [i \in 1..keys.len |-> 0])
             copied == copyKeys(made[1], keys, made[2], 1)
             sorted == [copied EXCEPT ![made[2]].data = sortAddresses(copied, @)]
         IN  <<sorted, [kind |-> "SimpleFSA",
                        keys |-> [arr |-> made[2], len |-> keys.len],
                        values |-> NilHeader]>>

\* SimpleFSABuilder.Reset
SimpleFSABuilder_Reset_Mem(b) == [b EXCEPT !.keys.len = 0, !.lastKey = 0]

\* FSTBuilder.Add of the caller's slice at address key
FSTBuilder_Add_Mem(h, b, key, value) ==
    LET keyStr == bytesAt(h, key)
        stored == keysOf(h, b.keys)
        err == IF \E i \in 1..b.keys.len : stored[i] = keyStr THEN ErrDuplicateKey
               ELSE IF b.keys.len > 0 /\ bytes_Compare(keyStr, stored[b.keys.len]) <= 0
                    THEN ErrUnorderedKey
                    ELSE ErrNil
        str == IF Len(keyStr) = 0 THEN <<h, 0>> ELSE alloc(h, "string", keyStr)
        keys == append(str[1], "strings", b.keys, str[2])
        values == append(keys[1], "uint64s", b.values, value)
    IN  IF err # ErrNil THEN <<h, b, err>>
        ELSE <<values[1], [b EXCEPT !.keys = keys[2], !.values = values[2]], ErrNil>>

\* FSTBuilder.Build: the FST gets the builder's two slices
FSTBuilder_Build_Mem(h, b) ==
    <<h, [kind |-> "FST", keys |-> b.keys, values |-> b.values]>>

\* SimpleFSAIterator.Key at position pos, and the []byte(key) of the FST
\* iterators' Next: a new array with the bytes of the key, <<heap, address>>
Key_Mem(h, f, pos) == alloc(h, "bytes", bytesAt(h, h[f.keys.arr].data[pos + 1]))

\* what the automaton holds now: its keys and its values
Contents(h, f) == [keys |-> keysOf(h, f.keys), values |-> valuesOf(h, f.values)]

\* the addresses in the order in which they are reached from the builder,
\* the automaton and the slices of the caller: each array of slices or of
\* strings is followed by what its elements (all up to its capacity) point to
RECURSIVE firstOccurrences(_, _)
firstOccurrences(addrs, seen) ==
    IF addrs = <<>> THEN <<>>
    ELSE IF Head(addrs) = 0 \/ Head(addrs) \in seen
         THEN firstOccurrences(Tail(addrs), seen)
         ELSE <<Head(addrs)>> \o firstOccurrences(Tail(addrs), seen \cup {Head(addrs)})

elementsAt(h, a) ==
    IF a # 0 /\ h[a].kind \in {"slices", "strings"} THEN h[a].data ELSE <<>>

reached(h, b, f, arg, got) ==
    firstOccurrences(
        <<b.keys.arr>> \o elementsAt(h, b.keys.arr) \o <<b.values.arr, b.lastKey>>
        \o <<f.keys.arr>> \o elementsAt(h, f.keys.arr) \o <<f.values.arr, arg, got>>,
        {})

\* the state after a call.  The arrays that cannot be reached are collected
\* and the others are renumbered in the order in which they are reached: no
\* operation of the program can tell one address from another
after(h, b, f, snap, arg, got, op) ==
    LET order == reached(h, b, f, arg, got)
        new(a) == IF a = 0 THEN 0 ELSE CHOOSE n \in 1..Len(order) : order[n] = a
        header(s) == [s EXCEPT !.arr = new(@)]
    IN  [heap |-> [n \in 1..Len(order) |->
                      LET obj == h[order[n]]
                      IN  IF obj.kind \in {"slices", "strings"}
                          THEN [obj EXCEPT !.data = [i \in 1..Len(obj.data) |-> new(obj.data[i])]]
                          ELSE obj],
         builder |-> [b EXCEPT !.keys = header(@), !.values = header(@),
                               !.lastKey = new(@)],
         arg |-> new(arg), got |-> new(got),
         auto |-> [f EXCEPT !.keys = header(@), !.values = header(@)],
         snap |-> snap, op |-> op]

-----------------------------------------------------------------------------------------------------------------------------------------------------
(* One builder, the first automaton it built, and a caller who keeps the   *)
(* slice it last passed to Add (arg) and the slice it last got from Key()  *)
(* or Next() (got), and writes to them.                                    *)

\* the most keys a SimpleFSABuilder and an FSTBuilder hold: an FSTBuilder
\* needs three keys for its arrays to have room left (capacity 4)
MaxStoredFSA == 2
MaxStoredFST == 4

\* the keys the caller adds (each with the value 1 to an FSTBuilder)
StoredKeys == {<<1>>, <<2>>, <<3>>, <<4>>}

NoAutomaton == [kind |-> "none", keys |-> NilHeader, values |-> NilHeader]

InitStorage ==
    /\ \E b \in {NewFSABuilder_Mem, NewFSTBuilder_Mem} :
           al = [heap |-> <<>>, builder |-> b, arg |-> 0, got |-> 0,
                 auto |-> NoAutomaton, snap |-> [keys |-> <<>>, values |-> <<>>],
                 op |-> "none"]
    /\ builder = NewFSABuilder
    /\ fsa = NoFSA
    /\ res = NoRes
    /\ hist = NoHist
    /\ iter = NoIter
    /\ out = NoOut
    /\ fz = NoFz
    /\ so = NoSo
    /\ lru = NoLru
    /\ au = NoAu
    /\ cq = NoCq

\* builder.Add(key, value) with key a slice the caller made and keeps
StorageAdd ==
    \E key \in StoredKeys, value \in {1} :
        LET buf == alloc(al.heap, "bytes", key)
            r == IF al.builder.kind = "SimpleFSABuilder"
                 THEN SimpleFSABuilder_Add_Mem(buf[1], al.builder, buf[2])
                 ELSE FSTBuilder_Add_Mem(buf[1], al.builder, buf[2], value)
        IN  /\ r[3] = ErrNil =>
                   al.builder.keys.len < (IF al.builder.kind = "SimpleFSABuilder"
                                          THEN MaxStoredFSA ELSE MaxStoredFST)
            /\ al' = after(r[1], r[2], al.auto, al.snap, buf[2], al.got, "Add")
            /\ UNCHANGED <<builder, fsa, res, hist, iter, out, fz, so, lru, au, cq>>

\* builder.Build(): the first automaton built is the one that is watched
StorageBuild ==
    /\ al.auto.kind = "none"
    /\ LET r == IF al.builder.kind = "SimpleFSABuilder"
                THEN NewSimpleFSA_Mem(al.heap, al.builder.keys)
                ELSE FSTBuilder_Build_Mem(al.heap, al.builder)
       IN  al' = after(r[1], al.builder, r[2], Contents(r[1], r[2]), al.arg, al.got,
                       "Build")
    /\ UNCHANGED <<builder, fsa, res, hist, iter, out, fz, so, lru, au, cq>>

\* builder.Reset()
StorageReset ==
    /\ al.builder.kind = "SimpleFSABuilder"
    /\ al' = after(al.heap, SimpleFSABuilder_Reset_Mem(al.builder), al.auto, al.snap,
                   al.arg, al.got, "Reset")
    /\ UNCHANGED <<builder, fsa, res, hist, iter, out, fz, so, lru, au, cq>>

\* an iterator of the automaton hands the key at some position to the caller
StorageKey ==
    /\ al.auto.kind # "none"
    /\ \E pos \in 0..(al.auto.keys.len - 1) :
           LET r == Key_Mem(al.heap, al.auto, pos)
           IN  al' = after(r[1], al.builder, al.auto, al.snap, al.arg, r[2], "Key")
    /\ UNCHANGED <<builder, fsa, res, hist, iter, out, fz, so, lru, au, cq>>

\* the caller writes a byte of a slice it keeps
StorageWrite ==
    /\ \E a \in {al.arg, al.got} \ {0} :
           \E i \in 1..Len(al.heap[a].data), byte \in Alphabet :
               /\ al.heap[a].data[i] # byte
               /\ al' = after([al.heap EXCEPT ![a].data[i] = byte], al.builder,
                              al.auto, al.snap, al.arg, al.got, "Write")
    /\ UNCHANGED <<builder, fsa, res, hist, iter, out, fz, so, lru, au, cq>>

NextStorage ==
    StorageAdd \/ StorageBuild \/ StorageReset \/ StorageKey \/ StorageWrite

SpecStorage == InitStorage /\ [][NextStorage]_vars

\* C24: a built SimpleFSA or FST is never changed after construction: later
\* Add, Reset and Build calls on its builder, writes by the caller to the
\* slices it passed to Add or got from Key() or Next(), and reads leave its
\* keys and values as they were when Build returned.
C24_BuiltAutomatonNeverChanges ==
    al.auto.kind # "none" => Contents(al.heap, al.auto) = al.snap

\* a SimpleFSA of two keys whose builder was since Reset and given another
\* key, and of which the caller got a key and wrote to it
C24_Witness ==
    /\ al.auto.kind = "SimpleFSA"
    /\ Len(al.snap.keys) = 2
    /\ al.builder.keys.len = 1
    /\ bytesAt(al.heap, al.heap[al.builder.keys.arr].data[1]) # al.snap.keys[1]
    /\ al.got # 0
    /\ bytesAt(al.heap, al.got) \notin Range(al.snap.keys)
    /\ al.op = "Write"

-----------------------------------------------------------------------------
(* ComplexQuery.Execute: a range with one bound *)

\* a query restricted by a range with exactly one bound and by nothing else
OneBoundQuery ==
    /\ cq.op = "Execute"
    /\ cq.err = ErrNil
    /\ cq.options.Prefix = <<>>
    /\ cq.options.RegexPattern = <<>>
    /\ cq.options.FuzzyPattern = <<>>
    /\ cq.options.Limit = 0
    /\ (cq.options.StartKey = <<>>) # (cq.options.EndKey = <<>>)

\* C37: ComplexQuery.Execute treats an empty range bound as absent: with
\* Prefix empty, StartKey = s non-empty and EndKey empty it returns all keys
\* k >= s, and with StartKey empty and EndKey = e non-empty all keys k < e.
C37_EmptyBoundIsAbsent ==
    OneBoundQuery =>
        Range(cq.Keys) =
            {k \in KeySet :
                /\ cq.options.StartKey # <<>> =>
                       bytes_Compare(cq.options.StartKey, k) <= 0
                /\ cq.options.EndKey # <<>> =>
                       bytes_Compare(k, cq.options.EndKey) < 0}

-----------------------------------------------------------------------------
(* A client of SimpleFSAIterator that goes on calling Next() after it has   *)
(* returned false, and that seeks and resets at any point.  out.keys holds  *)
(* the keys read with Key() since the last Reset or Seek (the key a Seek    *)
(* landed on included), out.done says that Next() has returned false since. *)

\* how many positions past the last key the client lets the iterator run
MaxPastEnd == 2

\* the prefixes, range bounds and seek targets of this client
SeekerArgs == {NilSlice} \cup {Slice(s) : s \in Strs(2)}

InitSeeker ==
    /\ fsa \in FSAOperands
    /\ builder = NewFSABuilder
    /\ res = NoRes
    /\ hist = NoHist
    /\ iter = NoIter
    /\ out = NoOut
    /\ fz = NoFz
    /\ so = NoSo
    /\ lru = NoLru
    /\ au = NoAu
    /\ cq = NoCq
    /\ al = NoAl

\* fsa.Iterator()
SeekerIterator ==
    /\ iter.impl = "none"
    /\ iter' = SimpleFSA_Iterator(fsa)
    /\ out' = [NoOut EXCEPT !.call = "Iterator"]
    /\ UNCHANGED <<builder, fsa, res, hist, fz, so, lru, au, cq, al>>

\* fsa.PrefixIterator(prefix)
SeekerPrefixIterator ==
    \E prefix \in SeekerArgs :
        /\ iter.impl = "none"
        /\ iter' = SimpleFSA_PrefixIterator(fsa, prefix)
        /\ out' = [NoOut EXCEPT !.call = "PrefixIterator", !.p = prefix]
        /\ UNCHANGED <<builder, fsa, res, hist, fz, so, lru, au, cq, al>>

\* fsa.RangeIterator(start, end)
SeekerRangeIterator ==
    \E start \in SeekerArgs, end \in SeekerArgs :
        /\ iter.impl = "none"
        /\ iter' = SimpleFSA_RangeIterator(fsa, start, end)
        /\ out' = [NoOut EXCEPT !.call = "RangeIterator", !.a = start, !.b = end]
        /\ UNCHANGED <<builder, fsa, res, hist, fz, so, lru, au, cq, al>>

\* ok := iter.Next(); if ok { keys = append(keys, iter.Key()) }
\* whether or not an earlier Next() returned false
SeekerNext ==
    /\ iter.impl = "SimpleFSAIterator"
    /\ iter.pos < Len(fsa.keys) + MaxPastEnd
    /\ LET r == SimpleFSAIterator_Next(fsa, iter)
       IN  /\ iter' = r[1]
           /\ out' = IF r[2]
                     THEN [out EXCEPT !.keys = Append(@, SimpleFSAIterator_Key(fsa, r[1]).b),
                                      !.last = "Next", !.ok = TRUE]
                     ELSE [out EXCEPT !.done = TRUE, !.last = "Next", !.ok = FALSE]
    /\ UNCHANGED <<builder, fsa, res, hist, fz, so, lru, au, cq, al>>

\* ok := iter.Seek(target); if ok { keys = [iter.Key()] }
SeekerSeek ==
    \E target \in SeekerArgs :
        /\ iter.impl = "SimpleFSAIterator"
        /\ LET r == SimpleFSAIterator_Seek(fsa, iter, target)
           IN  /\ iter' = r[1]
               /\ out' = [out EXCEPT
                              !.keys = IF r[2]
                                       THEN <<SimpleFSAIterator_Key(fsa, r[1]).b>>
                                       ELSE <<>>,
                              !.done = FALSE, !.last = "Seek", !.ok = r[2],
                              !.target = target]
        /\ UNCHANGED <<builder, fsa, res, hist, fz, so, lru, au, cq, al>>

NextSeeker ==
    \/ SeekerIterator
    \/ SeekerPrefixIterator
    \/ SeekerRangeIterator
    \/ SeekerNext
    \/ SeekerSeek
    \/ IterReset

SpecSeeker == InitSeeker /\ [][NextSeeker]_vars

\* C38: once Next() has returned false every further Next() returns false
\* until Reset() or Seek() is called, and a Next() that returns true leaves
\* Key() at a key that satisfies the iterator's prefix or range restriction
\* and is strictly greater than the key produced before it.
C38_ExhaustionIsSticky ==
    [][out'.last = "Next" =>
          /\ out.done => ~out'.ok
          /\ out'.ok =>
                 /\ Last(out'.keys) \in Restricted
                 /\ out.keys # <<>> =>
                        bytes_Compare(Last(out'.keys), Last(out.keys)) > 0]_vars

\* a range iterator that stopped at a key >= end, produced a key before, and
\* was asked again: the second refusal came from a further key of the automaton
C38_Witness ==
    /\ out.call = "RangeIterator"
    /\ out.done
    /\ out.last = "Next"
    /\ out.keys # <<>>
    /\ ~iter.end.isNil
    /\ iter.pos >= 1
    /\ iter.pos < Len(fsa.keys)
    /\ bytes_Compare(fsa.keys[iter.pos], iter.end.b) >= 0

\* C39: Seek(target) returns true if and only if the iterator's sequence
\* (all keys, the prefix block, or the range) contains a key >= target, and
\* then Key(), read directly after the Seek, is the smallest such key.
C39_SeekLandsOnFirstAtLeast ==
    out.last = "Seek" =>
        /\ out.ok <=> AtLeast(out.target.b) # {}
        /\ out.ok => out.keys = <<MinKey(AtLeast(out.target.b))>>

\* a Seek on a prefix iterator whose target lies below the prefix block, so
\* that the key it lands on is not the first key >= target of the automaton
C39_Witness ==
    /\ out.last = "Seek"
    /\ out.ok
    /\ out.call = "PrefixIterator"
    /\ \E k \in KeySet : /\ bytes_Compare(k, out.target.b) >= 0
                         /\ bytes_Compare(k, Last(out.keys)) < 0

-----------------------------------------------------------------------------
(* FuzzySearch: what it returns is within the distance *)

-----------------------------------------------------------------------------
(* The States table of a LevenshteinAutomaton, cell by cell.  A table maps  *)
(* <<position, errors>> to a LevenshteinState; fz holds the pattern, the    *)
(* maxDistance, the input consumed so far, the table, the table before the  *)
(* last Step with its byte, and the cells of the automaton as the search    *)
(* above keeps them.                                                        *)

\* the zero value of LevenshteinState
ZeroState == [Position |-> 0, Errors |-> 0, IsValid |-> FALSE]

\* make([][]LevenshteinState, rows) with rows of maxDistance+1 cells
makeStates(rows, maxDistance) ==
    [c \in (0..(rows - 1)) \X (0..maxDistance) |-> ZeroState]

\* the starting cells of NewLevenshteinAutomaton, from e on
RECURSIVE startingStates(_, _, _)
startingStates(states, e, maxDistance) ==
    IF e <= maxDistance
    THEN startingStates(
             [states EXCEPT ![<<e, e>>] = [Position |-> e, Errors |-> e, IsValid |-> TRUE]],
             e + 1, maxDistance)
    ELSE states

\* NewLevenshteinAutomaton: the table
NewLevenshteinAutomaton_States(pattern, maxDistance) ==
    startingStates(makeStates(Len(pattern) + maxDistance + 1, maxDistance), 0, maxDistance)

\* the body of Step's loops without the deletion
stepBody_NoDeletion(pattern, maxDistance, rows, char, states, newStates, pos, err) ==
    IF ~states[<<pos, err>>].IsValid THEN newStates
    ELSE LET patternLen == Len(pattern)
             nextErr == IF pattern[pos + 1] # char THEN err + 1 ELSE err
             matched ==
                 IF pos < patternLen /\ nextErr <= maxDistance /\ pos + 1 < rows
                 THEN [newStates EXCEPT ![<<pos + 1, nextErr>>] =
                           [Position |-> pos + 1, Errors |-> nextErr, IsValid |-> TRUE]]
                 ELSE newStates
         IN  IF err + 1 <= maxDistance /\ pos < rows
             THEN [matched EXCEPT ![<<pos, err + 1>>] =
                      [Position |-> pos, Errors |-> err + 1, IsValid |-> TRUE]]
             ELSE matched

\* the body of Step's loops for the cell states[pos][err]: newStates after
\* the match, insertion and deletion writes
stepBody(pattern, maxDistance, rows, char, states, newStates, pos, err) ==
    IF ~states[<<pos, err>>].IsValid THEN newStates
    ELSE LET patternLen == Len(pattern)
             nextErr == IF pattern[pos + 1] # char THEN err + 1 ELSE err
             matched ==
                 IF pos < patternLen /\ nextErr <= maxDistance /\ pos + 1 < rows
                 THEN [newStates EXCEPT ![<<pos + 1, nextErr>>] =
                           [Position |-> pos + 1, Errors |-> nextErr, IsValid |-> TRUE]]
                 ELSE newStates
             inserted ==
                 IF err + 1 <= maxDistance /\ pos < rows
                 THEN [matched EXCEPT ![<<pos, err + 1>>] =
                          [Position |-> pos, Errors |-> err + 1, IsValid |-> TRUE]]
                 ELSE matched
         IN  IF pos < patternLen /\ err + 1 <= maxDistance /\ pos + 1 < rows
             THEN [inserted EXCEPT ![<<pos + 1, err + 1>>] =
                      [Position |-> pos + 1, Errors |-> err + 1, IsValid |-> TRUE]]
             ELSE inserted

\* Step's two loops from the cell states[pos][err] on
RECURSIVE stepLoops(_, _, _, _, _, _, _, _)
stepLoops(pattern, maxDistance, rows, char, states, newStates, pos, err) ==
    IF pos >= rows THEN newStates
    ELSE IF err > maxDistance
    THEN stepLoops(pattern, maxDistance, rows, char, states, newStates, pos + 1, 0)
    ELSE stepLoops(pattern, maxDistance, rows, char, states,
                   stepBody(pattern, maxDistance, rows, char, states, newStates, pos, err),
                   pos, err + 1)

\* LevenshteinAutomaton.Step: the table of the automaton it returns
LevenshteinAutomaton_Step_States(pattern, maxDistance, states, char) ==
    LET rows == Len(pattern) + maxDistance + 1
    IN  stepLoops(pattern, maxDistance, rows, char, states,
                  makeStates(rows, maxDistance), 0, 0)

\* the longest input the automaton is stepped through
MaxInput == 3

InitStep ==
    /\ \E pattern \in AllStrs, maxDistance \in 0..MaxDist :
           fz = [pattern |-> pattern, maxDistance |-> maxDistance, input |-> <<>>,
                 States |-> NewLevenshteinAutomaton_States(pattern, maxDistance),
                 before |-> NewLevenshteinAutomaton_States(pattern, maxDistance),
                 char |-> 0,
                 automaton |-> NewLevenshteinAutomaton(pattern, maxDistance)]
    /\ fsa = NoFSA
    /\ builder = NewFSABuilder
    /\ res = NoRes
    /\ hist = NoHist
    /\ iter = NoIter
    /\ out = NoOut
    /\ so = NoSo
    /\ lru = NoLru
    /\ au = NoAu
    /\ cq = NoCq
    /\ al = NoAl

\* automaton = automaton.Step(char)
CallStep ==
    \E char \in Alphabet :
        /\ Len(fz.input) < MaxInput
        /\ fz' = [fz EXCEPT
                     !.input = Append(@, char),
                     !.States = LevenshteinAutomaton_Step_States(
                                    fz.pattern, fz.maxDistance, fz.States, char),
                     !.before = fz.States,
                     !.char = char,
                     !.automaton = LevenshteinAutomaton_Step(@, char)]
        /\ UNCHANGED <<builder, fsa, res, hist, iter, out, so, lru, au, cq, al>>

NextStep == CallStep

SpecStep == InitStep /\ [][NextStep]_vars

\* the valid cells of a table
ValidCells(states) == {c \in DOMAIN states : states[c].IsValid}

\* the set of cells the search keeps is the valid cells of the table
CellsAreTheTable == fz.automaton.States = ValidCells(fz.States)

\* the successors of the valid cell <<p, e>> under the byte c
Successors(pattern, maxDistance, c, p, e) ==
    {s \in (IF p < Len(pattern) /\ pattern[p + 1] = c THEN {<<p + 1, e>>} ELSE {})
           \cup (IF p < Len(pattern) THEN {<<p + 1, e + 1>>} ELSE {})
           \cup {<<p, e + 1>>} :
        s[2] <= maxDistance}

\* C32: Step(c) returns a table whose valid cells are exactly the successors
\* of the previously valid cells (for a valid (p, e): (p+1, e) if
\* p < len(pattern) and pattern[p] = c, (p+1, e+1) if p < len(pattern), and
\* (p, e+1), each kept only if its errors <= maxDistance), and each valid
\* cell stores Position and Errors equal to its indices.
C32_StepSuccessors ==
    fz.input # <<>> =>
        /\ ValidCells(fz.States) =
               UNION {Successors(fz.pattern, fz.maxDistance, fz.char, c[1], c[2]) :
                          c \in ValidCells(fz.before)}
        /\ \A c \in ValidCells(fz.States) :
               fz.States[c].Position = c[1] /\ fz.States[c].Errors = c[2]

\* a Step over a matching byte that kept the cell of the match and dropped
\* the successors of a cell that had maxDistance errors already
C32_Witness ==
    /\ fz.input # <<>>
    /\ \E c \in ValidCells(fz.before) :
           /\ c[1] < Len(fz.pattern)
           /\ fz.pattern[c[1] + 1] = fz.char
           /\ <<c[1] + 1, c[2]>> \in ValidCells(fz.States)
    /\ \E c \in ValidCells(fz.before) :
           c[1] <= Len(fz.pattern) /\ c[2] + 1 > fz.maxDistance
    /\ ValidCells(fz.States) # {}

-----------------------------------------------------------------------------
(* An Automaton put together by hand: NewAutomaton, then AddState and       *)
(* AddTransition in any order, and MinimizeAutomaton on what is at hand.    *)

\* the most states and the most transitions the client adds
MaxStates == 3
MaxTransitions == 2

\* the outputs the client gives to states and transitions
Outputs == {0, 1}

\* the number of transitions of an automaton
RECURSIVE NumTransitions(_, _)
NumTransitions(a, i) ==
    IF i > Len(a.States) THEN 0
    ELSE Len(a.States[i].Transitions) + NumTransitions(a, i + 1)

InitAssemble ==
    /\ au = [keys |-> <<>>, automaton |-> NewAutomaton, before |-> NewAutomaton,
             op |-> "NewAutomaton", minimized |-> 0]
    /\ builder = NewFSABuilder
    /\ fsa = NoFSA
    /\ res = NoRes
    /\ hist = NoHist
    /\ iter = NoIter
    /\ out = NoOut
    /\ fz = NoFz
    /\ so = NoSo
    /\ lru = NoLru
    /\ cq = NoCq
    /\ al = NoAl

\* automaton.AddState(isFinal, output)
CallAddState ==
    /\ au.op # "panic"
    /\ au.automaton.NumStates < MaxStates
    /\ \E isFinal \in BOOLEAN, output \in Outputs :
           au' = [au EXCEPT !.automaton = Automaton_AddState(@, isFinal, output)[1],
                            !.op = "AddState"]
    /\ UNCHANGED <<builder, fsa, res, hist, iter, out, fz, so, lru, cq, al>>

\* automaton.AddTransition(fromState, label, toState, output): fromState and
\* toState are any uint32, here up to the number of states
CallAddTransition ==
    /\ au.op # "panic"
    /\ NumTransitions(au.automaton, 1) < MaxTransitions
    /\ \E fromState \in 0..au.automaton.NumStates, label \in Alphabet,
          toState \in 0..au.automaton.NumStates, output \in Outputs :
           au' = IF Automaton_AddTransition_Panics(au.automaton, fromState)
                 THEN [au EXCEPT !.op = "panic"]
                 ELSE [au EXCEPT !.automaton = Automaton_AddTransition(
                                                   @, fromState, label, toState, output),
                                 !.op = "AddTransition"]
    /\ UNCHANGED <<builder, fsa, res, hist, iter, out, fz, so, lru, cq, al>>

\* automaton = MinimizeAutomaton(automaton), once
CallMinimizeAssembled ==
    /\ au.op # "panic"
    /\ au.minimized = 0
    /\ \E m \in MinimizeAutomaton(au.automaton) :
           au' = [au EXCEPT !.automaton = m, !.before = au.automaton,
                            !.op = "MinimizeAutomaton", !.minimized = 1]
    /\ UNCHANGED <<builder, fsa, res, hist, iter, out, fz, so, lru, cq, al>>

NextAssemble == CallAddState \/ CallAddTransition \/ CallMinimizeAssembled

SpecAssemble == InitAssemble /\ [][NextAssemble]_vars

\* the transitions are strictly increasing by label
LabelsIncrease(transitions) ==
    \A i \in 1..(Len(transitions) - 1) : transitions[i].Label < transitions[i + 1].Label

\* C34: in every Automaton reachable through NewAutomaton, AddState,
\* AddTransition and MinimizeAutomaton: NumStates = len(States),
\* States[i].ID = i, each state's transitions are strictly increasing by
\* label, and every transition target and StartState is < NumStates (the
\* last of an automaton that has a state: a new one has StartState 0).
C34_AutomatonInvariants ==
    LET a == au.automaton
    IN  a.NumStates > 0 =>
        /\ a.NumStates = Len(a.States)
        /\ \A i \in 1..Len(a.States) :
               /\ a.States[i].ID = i - 1
               /\ LabelsIncrease(a.States[i].Transitions)
               /\ \A j \in 1..Len(a.States[i].Transitions) :
                      a.States[i].Transitions[j].Target < a.NumStates
        /\ a.StartState < a.NumStates

\* the automaton before the minimization has a start state, valid targets
\* and one transition per label at most
WellFormedBefore ==
    LET a == au.before
    IN  /\ a.StartState < a.NumStates
        /\ \A i \in 1..Len(a.States) :
               /\ LabelsIncrease(a.States[i].Transitions)
               /\ \A j \in 1..Len(a.States[i].Transitions) :
                      a.States[i].Transitions[j].Target < a.NumStates

\* C31: MinimizeAutomaton merges two states only if their isFinal flag,
\* their output and the outputs of their transitions agree, so for every
\* automaton and every input w AcceptWithOutput(w) returns the same
\* (accepted, output) on the minimized automaton as on the original.
C31_MinimizeKeepsOutputs ==
    (au.op = "MinimizeAutomaton" /\ WellFormedBefore) =>
        \A w \in Probes :
            Automaton_AcceptWithOutput(au.automaton, w)
                = Automaton_AcceptWithOutput(au.before, w)

-----------------------------------------------------------------------------
(* BoundedLRUCache, used by several goroutines.  Here lru holds the cache   *)
(* with its elements as objects: elems maps the address of a list.Element   *)
(* to its cacheEntry (key, state) and to list, whether the element is in    *)
(* the list (container/list clears an element's list field when it removes  *)
(* it); cache maps a hash to an address and lru.lru is the list of          *)
(* addresses from front to back.  mu is the RWMutex: w the goroutine that   *)
(* holds the write lock (0 if none), r the goroutines that hold a read      *)
(* lock.  g is each goroutine's position in its call (pc), the arguments,   *)
(* the locals elem and exists of Get and what the last call returned.       *)

\* the goroutines, and the hashes and capacities of the cache they share
\* (one hash fewer than for a single goroutine)
Goroutines == {1, 2}
SharedHashes == 1..(MaxHash - 1)
SharedCapacities == 0..MaxCapacity

\* a goroutine between two calls
Idle == [pc |-> "idle", hash |-> 0, state |-> 0, elem |-> 0, ret |-> 0]

\* the addresses in use: the elements of the list and those a Get holds
liveElems(c) == Range(c.lru) \cup ({c.g[p].elem : p \in Goroutines} \ {0})

\* the elements that are still reachable
collect(c) == [c EXCEPT !.elems = [e \in liveElems(c) |-> c.elems[e]]]

\* the address of a newly allocated element
newElem(c) == MinOfSet((1..(Cardinality(liveElems(c)) + 1)) \ liveElems(c))

\* List.MoveToFront(e) that does not look at the element's list field
List_MoveToFront_Unchecked(c, e) == <<e>> \o SelectSeq(c.lru, LAMBDA x : x # e)

\* List.MoveToFront(e): nothing if e is not an element of the list or is
\* its front
List_MoveToFront(c, e) ==
    IF ~c.elems[e].list \/ (c.lru # <<>> /\ Head(c.lru) = e) THEN c.lru
    ELSE <<e>> \o SelectSeq(c.lru, LAMBDA x : x # e)

\* mu.RLock() is possible
mayRLock(c) == c.mu.w = 0
\* mu.Lock() is possible
mayLock(c) == c.mu.w = 0 /\ c.mu.r = {}

InitShared ==
    /\ \E capacity \in SharedCapacities :
           lru = [capacity |-> capacity, cache |-> <<>>, lru |-> <<>>, elems |-> <<>>,
                  mu |-> [w |-> 0, r |-> {}],
                  g |-> [p \in Goroutines |-> Idle]]
    /\ au = NoAu
    /\ cq = NoCq
    /\ al = NoAl
    /\ builder = NewFSABuilder
    /\ fsa = NoFSA
    /\ res = NoRes
    /\ hist = NoHist
    /\ iter = NoIter
    /\ out = NoOut
    /\ fz = NoFz
    /\ so = NoSo

\* a goroutine calls Get, Put or Size
StartCall ==
    \E p \in Goroutines, hash \in SharedHashes, state \in FrozenStates :
        /\ lru.g[p].pc = "idle"
        /\ \/ lru' = [lru EXCEPT !.g[p] = [Idle EXCEPT !.pc = "Get_RLock", !.hash = hash]]
           \/ lru' = [lru EXCEPT !.g[p] = [Idle EXCEPT !.pc = "Put_Lock", !.hash = hash,
                                                       !.state = state]]
           \/ lru' = [lru EXCEPT !.g[p] = [Idle EXCEPT !.pc = "Size_RLock"]]
        /\ UNCHANGED <<builder, fsa, res, hist, iter, out, fz, so, au, cq, al>>

\* Get: c.mu.RLock()
GetRLock ==
    \E p \in Goroutines :
        /\ lru.g[p].pc = "Get_RLock"
        /\ mayRLock(lru)
        /\ lru' = [lru EXCEPT !.mu.r = @ \cup {p}, !.g[p].pc = "Get_Lookup"]
        /\ UNCHANGED <<builder, fsa, res, hist, iter, out, fz, so, au, cq, al>>

\* Get: elem, exists := c.cache[hash]; c.mu.RUnlock(); if !exists { return nil, false }
GetLookup ==
    \E p \in Goroutines :
        /\ lru.g[p].pc = "Get_Lookup"
        /\ lru' = IF lru.g[p].hash \in DOMAIN lru.cache
                  THEN [lru EXCEPT !.mu.r = @ \ {p}, !.g[p].pc = "Get_Lock",
                                   !.g[p].elem = lru.cache[lru.g[p].hash]]
                  ELSE [lru EXCEPT !.mu.r = @ \ {p}, !.g[p] = Idle]
        /\ UNCHANGED <<builder, fsa, res, hist, iter, out, fz, so, au, cq, al>>

\* Get: c.mu.Lock()
GetLock ==
    \E p \in Goroutines :
        /\ lru.g[p].pc = "Get_Lock"
        /\ mayLock(lru)
        /\ lru' = [lru EXCEPT !.mu.w = p, !.g[p].pc = "Get_Move"]
        /\ UNCHANGED <<builder, fsa, res, hist, iter, out, fz, so, au, cq, al>>

\* Get: c.lru.MoveToFront(elem); c.mu.Unlock()
GetMove ==
    \E p \in Goroutines :
        /\ lru.g[p].pc = "Get_Move"
        /\ lru' = [lru EXCEPT !.lru = List_MoveToFront(lru, lru.g[p].elem),
                              !.mu.w = 0, !.g[p].pc = "Get_Return"]
        /\ UNCHANGED <<builder, fsa, res, hist, iter, out, fz, so, au, cq, al>>

\* Get: return elem.Value.(*cacheEntry).state, true (read without the lock:
\* it sees what the writes made under the lock so far have left)
GetReturn ==
    \E p \in Goroutines :
        /\ lru.g[p].pc = "Get_Return"
        /\ lru' = collect([lru EXCEPT !.g[p] = [Idle EXCEPT !.ret =
                                                    lru.elems[lru.g[p].elem].state]])
        /\ UNCHANGED <<builder, fsa, res, hist, iter, out, fz, so, au, cq, al>>

\* Put: c.mu.Lock()
PutLock ==
    \E p \in Goroutines :
        /\ lru.g[p].pc = "Put_Lock"
        /\ mayLock(lru)
        /\ lru' = [lru EXCEPT !.mu.w = p, !.g[p].pc = "Put_Update"]
        /\ UNCHANGED <<builder, fsa, res, hist, iter, out, fz, so, au, cq, al>>

\* Put: the update of an entry that exists (with the deferred Unlock), or
\* else the insertion of a new one
PutUpdate ==
    \E p \in Goroutines :
        /\ lru.g[p].pc = "Put_Update"
        /\ LET hash == lru.g[p].hash
               elem == newElem(lru)
           IN  lru' =
                 IF hash \in DOMAIN lru.cache
                 THEN [lru EXCEPT !.lru = List_MoveToFront(lru, lru.cache[hash]),
                                  !.elems[lru.cache[hash]].state = lru.g[p].state,
                                  !.mu.w = 0, !.g[p] = Idle]
                 ELSE [lru EXCEPT !.elems = map_Set(@, elem,
                                                    [key |-> hash, state |-> lru.g[p].state,
                                                     list |-> TRUE]),
                                  !.lru = <<elem>> \o @,
                                  !.cache = map_Set(@, hash, elem),
                                  !.g[p].pc = "Put_Evict"]
        /\ UNCHANGED <<builder, fsa, res, hist, iter, out, fz, so, au, cq, al>>

\* Put: the eviction of the oldest entry if the list is over capacity, and
\* the deferred Unlock
PutEvict ==
    \E p \in Goroutines :
        /\ lru.g[p].pc = "Put_Evict"
        /\ lru' =
             IF Len(lru.lru) > lru.capacity
             THEN LET oldest == lru.lru[Len(lru.lru)]
                  IN  collect([lru EXCEPT
                                   !.lru = SubSeq(@, 1, Len(@) - 1),
                                   !.elems[oldest].list = FALSE,
                                   !.cache = map_Delete(@, lru.elems[oldest].key),
                                   !.mu.w = 0, !.g[p] = Idle])
             ELSE [lru EXCEPT !.mu.w = 0, !.g[p] = Idle]
        /\ UNCHANGED <<builder, fsa, res, hist, iter, out, fz, so, au, cq, al>>

\* Size: c.mu.RLock()
SizeRLock ==
    \E p \in Goroutines :
        /\ lru.g[p].pc = "Size_RLock"
        /\ mayRLock(lru)
        /\ lru' = [lru EXCEPT !.mu.r = @ \cup {p}, !.g[p].pc = "Size_Len"]
        /\ UNCHANGED <<builder, fsa, res, hist, iter, out, fz, so, au, cq, al>>

\* Size: return c.lru.Len() (with the deferred RUnlock)
SizeLen ==
    \E p \in Goroutines :
        /\ lru.g[p].pc = "Size_Len"
        /\ lru' = [lru EXCEPT !.mu.r = @ \ {p},
                              !.g[p] = [Idle EXCEPT !.ret = Len(lru.lru)]]
        /\ UNCHANGED <<builder, fsa, res, hist, iter, out, fz, so, au, cq, al>>

NextShared ==
    \/ StartCall
    \/ GetRLock
    \/ GetLookup
    \/ GetLock
    \/ GetMove
    \/ GetReturn
    \/ PutLock
    \/ PutUpdate
    \/ PutEvict
    \/ SizeRLock
    \/ SizeLen

SpecShared == InitShared /\ [][NextShared]_vars

\* the goroutine waits for a lock that it cannot get
Blocked(p) ==
    \/ lru.g[p].pc \in {"Get_RLock", "Size_RLock"} /\ ~mayRLock(lru)
    \/ lru.g[p].pc \in {"Get_Lock", "Put_Lock"} /\ ~mayLock(lru)

\* C35: in every interleaving of Get, Put and Size on several goroutines,
\* whenever no goroutine holds the write lock the map and the recency list
\* hold the same keys (one element per key, the map leading to it, every
\* element of the list marked as in the list and no removed one in it) and
\* the list is no longer than the capacity; and the calls never deadlock:
\* whenever a call is under way, some call under way can take a step.
C35_ConsistentWhenUnlocked ==
    /\ lru.mu.w = 0 =>
           /\ DOMAIN lru.cache = {lru.elems[e].key : e \in Range(lru.lru)}
           /\ Cardinality(Range(lru.lru)) = Len(lru.lru)
           /\ Cardinality(DOMAIN lru.cache) = Len(lru.lru)
           /\ \A h \in DOMAIN lru.cache :
                  lru.cache[h] \in Range(lru.lru) /\ lru.elems[lru.cache[h]].key = h
           /\ \A e \in DOMAIN lru.elems : lru.elems[e].list <=> e \in Range(lru.lru)
           /\ Len(lru.lru) <= lru.capacity
    /\ (\E p \in Goroutines : lru.g[p].pc # "idle") =>
           \E p \in Goroutines : lru.g[p].pc # "idle" /\ ~Blocked(p)

\* a Get that waits for the write lock with an element that a Put of the
\* other goroutine has removed from the list in the meantime
C35_Witness ==
    /\ lru.mu.w = 0
    /\ lru.lru # <<>>
    /\ \E p \in Goroutines :
           /\ lru.g[p].pc = "Get_Return"
           /\ ~lru.elems[lru.g[p].elem].list

\* C36: Get is atomic with respect to a concurrent Put: when Get has
\* promoted the entry it looked up, the entry is still the one of its hash
\* in the cache and is the most recently used, and when Get returns, the
\* state it returns is the state stored for that hash in the cache.
C36_GetIsAtomic ==
    [][\A p \in Goroutines :
          /\ (lru.g[p].pc = "Get_Move" /\ lru'.g[p].pc = "Get_Return") =>
                 /\ lru.g[p].hash \in DOMAIN lru'.cache
                 /\ lru'.cache[lru.g[p].hash] = lru.g[p].elem
                 /\ Head(lru'.lru) = lru.g[p].elem
          /\ (lru.g[p].pc = "Get_Return" /\ lru'.g[p].pc = "idle") =>
                 /\ lru.g[p].hash \in DOMAIN lru.cache
                 /\ lru'.g[p].ret = lru.elems[lru.cache[lru.g[p].hash]].state]_vars

====
